---- MODULE Spec2Model ----
(***************************************************************************)
(* A model of the SQS part of coghost/xaws (src/sqs.go):                   *)
(*   - the drain session  SqsClient.ReadMessages  with its channel, its    *)
(*     consumer and the remote queue                  (specification Spec) *)
(*   - the pure function  ChunkSlice             (specification SpecChunk) *)
(*   - the batch sender   SqsClient.SendManyMessages (specification        *)
(*     SpecSend)                                                           *)
(*   - the queue handle of a client and the operations that read or set    *)
(*     it                                        (specification SpecHandle) *)
(*   - one call of        SqsClient.SendMsgBatch  (specification SpecBatch) *)
(*   - one call of        SqsClient.SendMsgWithRetry                       *)
(*                                               (specification SpecRetry) *)
(*   - one call of        SqsClient.ClearQueue    (specification SpecClear) *)
(*   - two drain sessions running on one client     (specification SpecTwo) *)
(*   - one call of        S3Client.ListObjects     (specification SpecList) *)
(*   - the invocations of a FunctionWrapper       (specification SpecInvoke) *)
(*   - one call of        FunctionWrapper.List      (specification SpecFns) *)
(*   - the calls of       SchedulerWrapper.Upsert (specification SpecUpsert) *)
(*   - the drain session left alone, with fairness                         *)
(*                                                (specification SpecLive) *)
(*   - one call of        DynamodbWrapper.AddItemBatch                     *)
(*                                                 (specification SpecAdd) *)
(*   - the calls of       S3Client.HasObject and S3Client.GetObject        *)
(*                                                  (specification SpecS3) *)
(*                                                                         *)
(* The remote queue is the SQS service as the client sees it: a sequence   *)
(* of visible messages and a set of received (in flight) messages.  A      *)
(* receive call hides the messages it returns; the count query reports the *)
(* number of visible messages.  A call of the SDK client that fails        *)
(* returns a nil output together with the error (every generated operation *)
(* of aws-sdk-go-v2 does), so reading a field of that output is a nil      *)
(* pointer dereference: a Go panic, which ends the process.                *)
(***************************************************************************)
EXTENDS Integers, Sequences, FiniteSets

\* ---------------------------------------------------------------- bounds
MaxQueue   == 7   \* most messages the queue holds when a session starts
MaxMax     == 3   \* largest value given to WithMax
MaxBatch   == 3   \* largest w.batchSize (MaxNumberOfMessages of a receive)
MaxChanCap == 1   \* largest capacity of the caller's channel (0 = unbuffered)
MaxEnvSend == 1   \* most messages another sender adds during a session
MaxLen     == 4   \* longest slice given to ChunkSlice
MaxChunk   == 4   \* largest chunk size given to ChunkSlice
MaxChunks  == 6   \* chunks after which a run of ChunkSlice is cut off
MaxMsgs    == 23  \* most messages given to SendManyMessages
MaxOps     == 4   \* most operations performed on one client
MaxStored  == 2   \* most messages SendMsg queues on one client
MaxBatchMsgs == 12 \* most messages given to SendMsgBatch
MaxFailIds == 4   \* entries of a batch the service may reject
MaxClear   == 11  \* most messages in the queue ClearQueue is called on
MaxTwoQueue == 4  \* most messages in the queue two sessions drain
MaxTwoMax  == 2   \* largest maximum of one of two sessions
MaxTwoBatch == 2  \* largest w.batchSize with two sessions
MaxObjects == 4   \* most objects under the prefix given to ListObjects
MaxKeys    == 3   \* largest value given to WithMaxKeys
MaxInvokes == 4   \* most remote invocations on one FunctionWrapper
MaxFns     == 5   \* most functions in the account List reads
MaxItems   == 4   \* largest maxItems given to FunctionWrapper.List
MaxUpserts == 2   \* most Upsert calls on one SchedulerWrapper
MaxData    == 51  \* most write requests given to AddItemBatch
MaxS3Ops   == 2   \* most calls made on one S3Client
MaxRetries == 4   \* largest retries given to SendMsgWithRetry

\* ------------------------------------------------------------- constants
ddbBatchSize == 25   \* AddItemBatch: the DynamoDB maximum of a batch
maxBatchSize == 10   \* SendManyMessages: the SQS maximum of a batch
MaxMsgBytes  == 262144   \* SendMsg: 256*1024, the longest message in bytes

\* ------------------------------------------------------- SqsReadStatus
SqsReadError          == 0
SqsReadSuccess        == 1
SqsReadAllConsumed    == 2
SqsReadMaximumReached == 3

Nil == 0   \* the nil *string of a response that carries no message

NewSqsResp(msg, status) == [Status |-> status, Msg |-> msg]

\* ------------------------------------------------------------ variables
VARIABLES
  \* remote queue
  queue,      \* visible messages (ids), in the order the service returns them
  inflight,   \* messages received and not deleted
  envSent,    \* messages added by another sender since the session started
  \* the caller's channel and its consumer
  chanCap,    \* capacity of chanResp
  chanBuf,    \* buffered responses
  consumed,   \* responses the consumer has received, in order
  \* ReadMessages
  pc,         \* position of the producer
  max,        \* opt.max
  batchSize,  \* w.batchSize
  remained,   \* result of the last GetRemainedItems
  got,        \* tally of delivered messages
  msgs,       \* messages of the current receive batch not yet published
  published,  \* every response sent on chanResp so far, in order (history)
  svcErr,     \* the SDK call that failed: "none", "count" or "receive" (history)
  initial,    \* number of messages in the queue when the session started (history)
  consumerOn, \* whether the caller still receives from chanResp
  received,   \* the messages the receive calls returned, in order (history)
  deleted,    \* the messages DeleteMsg calls of the consumer removed (history)
  chanClosed  \* whether the caller has closed chanResp

drainVars == <<queue, inflight, envSent, chanCap, chanClosed, deleted,
               consumerOn, received,
               chanBuf, consumed, pc, max, batchSize, remained, got, msgs,
               published, svcErr, initial>>

VARIABLES
  \* ChunkSlice
  slice,      \* the part of the input not yet chunked
  chunkSize,  \* the chunk size, as the loop has clamped it
  chunks,     \* the chunks appended so far
  cpc,        \* position in ChunkSlice
  cInput,     \* the slice ChunkSlice was called with (history)
  cSize       \* the chunk size ChunkSlice was called with (history)

chunkVars == <<slice, chunkSize, chunks, cpc, cInput, cSize>>

VARIABLES
  \* SendManyMessages
  messages,   \* the messages to send
  sidx,       \* the loop index i
  totalSent,  \* the tally of accepted entries
  calls,      \* the batch-send calls issued, with their outcome (history)
  sret,       \* what SendManyMessages returned
  spc         \* position in SendManyMessages

sendVars == <<messages, sidx, totalSent, calls, sret, spc>>

VARIABLES
  \* the client's queue handle and the queues of the account
  remoteQueues, \* names of the queues that exist
  stored,       \* messages the queue service has accepted, in order
  QueueName,    \* w.QueueName
  QueueURL,     \* w.QueueURL
  hop,          \* the last operation on the client and what it returned
  hstep,        \* number of operations performed (history)
  created,      \* the queue the last CreateQueue made, if still there (history)
  hNew          \* the handle as NewSqsClient built it (history)

handleVars == <<remoteQueues, stored, QueueName, QueueURL, hop, hstep,
                created, hNew>>

VARIABLES
  \* SendMsgBatch
  bMessages,  \* the messages SendMsgBatch is given
  bSent,      \* the entries of each SendMessageBatch call issued (history)
  bret,       \* what SendMsgBatch returned
  bpc         \* position in SendMsgBatch

batchVars == <<bMessages, bSent, bret, bpc>>

VARIABLES
  \* SendMsgWithRetry
  rMessage,   \* the message
  rRetries,   \* the retries argument
  rN,         \* retry.Do: the attempt counter n
  rAttempts,  \* the SendMsg calls made, with their error (history)
  rret,       \* what SendMsgWithRetry returned
  rpc         \* position in SendMsgWithRetry

retryVars == <<rMessage, rRetries, rN, rAttempts, rret, rpc>>

VARIABLES
  \* ClearQueue
  cleared,    \* messagesCleared
  kMsgs,      \* messages of the current receive not yet deleted
  kDeletes,   \* DeleteMsg calls that succeeded (history)
  kErrors,    \* receive and delete calls that failed (history)
  kSender,    \* whether another sender adds messages during the call
  kret,       \* what ClearQueue returned
  kpc         \* position in ClearQueue

clearVars == <<cleared, kMsgs, kDeletes, kErrors, kSender, kret, kpc>>

VARIABLES
  \* two drain sessions on one client
  tqueue,     \* visible messages of the queue both sessions read
  tinflight,  \* messages received and not deleted
  tbatch,     \* w.batchSize
  tmax,       \* opt.max of each session
  tgot,       \* the tally got of each session
  tmsgs,      \* messages of each session's current receive not yet published
  tremained,  \* result of each session's last GetRemainedItems
  tpub,       \* the responses each session has sent on its channel (history)
  tpc         \* position of each session in ReadMessages

twoVars == <<tqueue, tinflight, tbatch, tmax, tgot, tmsgs, tremained,
             tpub, tpc>>

VARIABLES
  \* S3Client.ListObjects
  lObjects,   \* the objects under the prefix, in listing order: whether each
              \* passes the empty-file filter
  lMaxKeys,   \* opt.maxKeys
  lPos,       \* objects already listed by earlier pages (the continuation)
  lFound,     \* found
  lPages,     \* ListObjectsV2 calls issued (history)
  lret,       \* what ListObjects returned
  lpc         \* position in ListObjects

listVars == <<lObjects, lMaxKeys, lPos, lFound, lPages, lret, lpc>>

VARIABLES
  \* FunctionWrapper.Invoke
  dryRun,     \* w.dryRun
  asyncMode,  \* w.asyncMode
  invoked,    \* the Invoke calls sent to the service, in order (history)
  iop         \* the last call on the wrapper and what it returned

invokeVars == <<dryRun, asyncMode, invoked, iop>>

VARIABLES
  \* FunctionWrapper.List
  fAccount,   \* number of functions in the account
  maxItems,   \* the argument maxItems
  fPos,       \* functions listed by the pages received so far
  fMore,      \* paginator.HasMorePages()
  fns,        \* fns: the functions appended so far (their positions)
  fPages,     \* pages requested (history)
  fret,       \* what List returned
  fpc         \* position in List

fnsVars == <<fAccount, maxItems, fPos, fMore, fns, fPages, fret, fpc>>

VARIABLES
  \* SchedulerWrapper.Upsert
  schedules,  \* names of the schedules in the group
  uop,        \* the last Upsert: its name, whether a schedule of that name
              \* existed, the call it made and the error it returned
  ustep       \* number of Upsert calls performed (history)

upsertVars == <<schedules, uop, ustep>>

VARIABLES
  dData,      \* AddItemBatch: the write requests given (data)
  dStart,     \* start
  dEnd,       \* end
  dWritten,   \* written
  dErr,       \* err: "nil" or "svc"
  dCalls,     \* the BatchWriteItem calls made: [batch, ok] (history)
  dret,       \* what AddItemBatch returned: [written, err]
  dpc         \* "idle", "loop", "done"

addVars == <<dData, dStart, dEnd, dWritten, dErr, dCalls, dret, dpc>>

VARIABLES
  bucket,     \* S3Client: the keys of the objects in w.Bucket
  sop,        \* the last call: [op, key, head, has, nil, err]
  sdk,        \* the SDK operations the last call made (history)
  sstep       \* number of calls made (history)

s3Vars == <<bucket, sop, sdk, sstep>>

vars == <<drainVars, chunkVars, sendVars, handleVars, batchVars,
          retryVars, clearVars, twoVars, listVars,
          invokeVars, fnsVars, upsertVars, addVars, s3Vars>>

\* what a drain session, a call of ChunkSlice and a call of SendManyMessages
\* (which queues messages) leave alone
notDrain == <<chunkVars, sendVars, handleVars, batchVars, retryVars,
              clearVars, twoVars, listVars, invokeVars,
              fnsVars, upsertVars, addVars, s3Vars>>

notChunk == <<drainVars, sendVars, handleVars, batchVars, retryVars,
              clearVars, twoVars, listVars, invokeVars,
              fnsVars, upsertVars, addVars, s3Vars>>

notSend == <<chunkVars, handleVars, batchVars, retryVars, clearVars,
             twoVars, listVars, invokeVars, fnsVars,
             upsertVars, addVars, s3Vars>>

notHandle == <<drainVars, chunkVars, sendVars, batchVars, retryVars,
               clearVars, twoVars, listVars, invokeVars,
               fnsVars, upsertVars, addVars, s3Vars>>

notBatch == <<chunkVars, sendVars, handleVars, retryVars, clearVars,
              twoVars, listVars, invokeVars, fnsVars,
              upsertVars, addVars, s3Vars>>

notRetry == <<chunkVars, sendVars, handleVars, batchVars, clearVars,
              twoVars, listVars, invokeVars, fnsVars,
              upsertVars, addVars, s3Vars>>

notClear == <<chunkVars, sendVars, handleVars, batchVars, retryVars,
              twoVars, listVars, invokeVars, fnsVars,
              upsertVars, addVars, s3Vars>>

notTwo == <<drainVars, chunkVars, sendVars, handleVars, batchVars,
            retryVars, clearVars, listVars, invokeVars,
            fnsVars, upsertVars, addVars, s3Vars>>

notList == <<drainVars, chunkVars, sendVars, handleVars, batchVars,
             retryVars, clearVars, twoVars, invokeVars,
             fnsVars, upsertVars, addVars, s3Vars>>

notInvoke == <<drainVars, chunkVars, sendVars, handleVars, batchVars,
               retryVars, clearVars, twoVars, listVars,
               fnsVars, upsertVars, addVars, s3Vars>>

notFns == <<drainVars, chunkVars, sendVars, handleVars, batchVars,
            retryVars, clearVars, twoVars, listVars,
            invokeVars, upsertVars, addVars, s3Vars>>

notUpsert == <<drainVars, chunkVars, sendVars, handleVars, batchVars,
               retryVars, clearVars, twoVars, listVars,
               invokeVars, fnsVars, addVars, s3Vars>>

notAdd == <<drainVars, chunkVars, sendVars, handleVars, batchVars,
            retryVars, clearVars, twoVars, listVars,
            invokeVars, fnsVars, upsertVars, s3Vars>>

notS3 == <<drainVars, chunkVars, sendVars, handleVars, batchVars,
           retryVars, clearVars, twoVars, listVars,
           invokeVars, fnsVars, upsertVars, addVars>>

\* -------------------------------------------------------------- helpers
Min(a, b) == IF a < b THEN a ELSE b

Ids(n) == [i \in 1..n |-> i]

Range(s) == {s[i] : i \in 1..Len(s)}

\* GetRemainedItems on success: the ApproximateNumberOfMessages attribute,
\* cast to int64.
GetRemainedItems(q) == Len(q)

\* opt.max != 0 && got >= opt.max
MaximumReached_OffByOne(m, g) == m # 0 /\ g > m

MaximumReached(m, g) == m # 0 /\ g >= m

\* remained == 0
AllConsumed_OneLeft(r) == r <= 1

AllConsumed(r) == r = 0

\* position after the terminal response was sent: break / break OUTER
AfterTerminal_Continue == "loop"

AfterTerminal == "done"

\* position after one message of the batch was sent and counted: the maximum
\* is tested inside the range loop, before the next message of the batch
AfterSuccess_BatchFirst(m, g, rest) ==
  IF rest # <<>> THEN "sendSuccess"
  ELSE IF MaximumReached(m, g) THEN "sendMaximum" ELSE "loop"

AfterSuccess(m, g, rest) ==
  IF MaximumReached(m, g) THEN "sendMaximum"
  ELSE IF rest = <<>> THEN "loop" ELSE "sendSuccess"

\* ReceiveMessage hides the messages it returns and deletes none of them
InFlightAfter_Deleted(infl, ms) == infl

InFlightAfter(infl, ms) == infl \cup Range(ms)

\* for _, msg := range msgs.Messages: the next message of the range
NextMsg_Last(ms) == ms[Len(ms)]

NextMsg(ms) == Head(ms)

\* ----------------------------------------------------------- the channel
\* chanResp <- r : blocks until the buffer has room or, on an unbuffered
\* channel, until the consumer takes the value.
CanSend_NoRendezvous == chanCap = 0 \/ Len(chanBuf) < chanCap

CanSend == IF chanCap = 0 THEN consumerOn ELSE Len(chanBuf) < chanCap

Send_Dropped(r) ==
  /\ CanSend
  /\ UNCHANGED <<published, chanBuf, consumed>>

Send(r) ==
  /\ CanSend
  /\ published' = Append(published, r)
  /\ IF chanCap = 0
       THEN /\ consumed' = Append(consumed, r)
            /\ UNCHANGED chanBuf
       ELSE /\ chanBuf' = Append(chanBuf, r)
            /\ UNCHANGED consumed

\* chanResp <- r on a channel the caller has closed: a Go panic
SendOnClosed ==
  /\ pc' = "panicked"
  /\ svcErr' = "closed"
  /\ UNCHANGED <<published, chanBuf, consumed>>

\* ------------------------------------------------------------------ Init
\* no call of ChunkSlice in progress
ChunkIdle ==
  /\ slice = <<>> /\ chunkSize = 0 /\ chunks = <<>> /\ cpc = "idle"
  /\ cInput = <<>> /\ cSize = 0

\* no call of SendManyMessages in progress
SendIdle ==
  /\ messages = <<>> /\ sidx = 0 /\ totalSent = 0 /\ calls = <<>>
  /\ sret = [total |-> 0, err |-> [kind |-> "none"]] /\ spc = "idle"

\* no drain session in progress, the queue empty
DrainIdle ==
  /\ queue = <<>> /\ initial = 0 /\ inflight = {} /\ envSent = 0
  /\ consumerOn = FALSE /\ received = <<>> /\ deleted = {}
  /\ chanClosed = FALSE
  /\ chanCap = 0 /\ chanBuf = <<>> /\ consumed = <<>> /\ pc = "idle"
  /\ max = 0 /\ batchSize = 1 /\ remained = 0 /\ got = 0 /\ msgs = <<>>
  /\ published = <<>> /\ svcErr = "none"

\* no client under observation
HandleIdle ==
  /\ remoteQueues = {} /\ stored = <<>> /\ QueueName = "" /\ QueueURL = ""
  /\ hop = [op |-> "idle", name |-> "", msg |-> [len |-> 0, utf8 |-> TRUE],
            out |-> "", err |-> "nil", calls |-> 0, fault |-> FALSE]
  /\ hstep = 0
  /\ created = [name |-> "", clean |-> FALSE, gone |-> FALSE]
  /\ hNew = [QueueName |-> "", QueueURL |-> ""]

\* no call of SendMsgBatch in progress
BatchIdle ==
  /\ bMessages = <<>> /\ bSent = <<>> /\ bpc = "idle"
  /\ bret = [nil |-> TRUE, out |-> [Successful |-> <<>>, Failed |-> <<>>],
             err |-> "none"]

\* no call of SendMsgWithRetry in progress
RetryIdle ==
  /\ rMessage = [len |-> 0, utf8 |-> TRUE] /\ rRetries = 0 /\ rN = 0
  /\ rAttempts = <<>> /\ rpc = "idle"
  /\ rret = [nil |-> TRUE, out |-> 0, err |-> "none"]

\* no call of ClearQueue in progress
ClearIdle ==
  /\ cleared = 0 /\ kMsgs = <<>> /\ kDeletes = 0 /\ kErrors = 0
  /\ kSender = FALSE /\ kret = [n |-> 0, err |-> "none"] /\ kpc = "idle"

\* no pair of drain sessions in progress
TwoIdle ==
  /\ tqueue = <<>> /\ tinflight = {} /\ tbatch = 1
  /\ tmax = <<0, 0>> /\ tgot = <<0, 0>> /\ tmsgs = <<<<>>, <<>>>>
  /\ tremained = <<0, 0>> /\ tpub = <<<<>>, <<>>>> /\ tpc = <<"idle", "idle">>

\* no call of ListObjects in progress
ListIdle ==
  /\ lObjects = <<>> /\ lMaxKeys = 0 /\ lPos = 0 /\ lFound = <<>>
  /\ lPages = 0 /\ lret = [found |-> <<>>, err |-> "none"] /\ lpc = "idle"

\* no FunctionWrapper under observation
InvokeIdle ==
  /\ dryRun = FALSE /\ asyncMode = FALSE /\ invoked = <<>>
  /\ iop = [op |-> "idle", getLog |-> FALSE, nil |-> TRUE, err |-> "nil"]

\* no call of FunctionWrapper.List in progress
FnsIdle ==
  /\ fAccount = 0 /\ maxItems = 0 /\ fPos = 0 /\ fMore = FALSE /\ fns = <<>>
  /\ fPages = 0 /\ fret = [fns |-> <<>>, err |-> "none"] /\ fpc = "idle"

\* no SchedulerWrapper under observation
UpsertIdle ==
  /\ schedules = {} /\ ustep = 0
  /\ uop = [op |-> "idle", name |-> <<>>, existed |-> FALSE,
            call |-> "none", err |-> "nil"]

\* no call of AddItemBatch in progress
AddIdle ==
  /\ dData = <<>> /\ dStart = 0 /\ dEnd = 0 /\ dWritten = 0 /\ dErr = "nil"
  /\ dCalls = <<>> /\ dret = [written |-> 0, err |-> "nil"] /\ dpc = "idle"

\* no S3Client under observation
S3Idle ==
  /\ bucket = {} /\ sdk = <<>> /\ sstep = 0
  /\ sop = [op |-> "idle", key |-> "", head |-> "nil", has |-> FALSE,
            nil |-> TRUE, err |-> "nil"]

Init ==
  /\ S3Idle
  /\ AddIdle
  /\ UpsertIdle
  /\ FnsIdle
  /\ InvokeIdle
  /\ ListIdle
  /\ TwoIdle
  /\ ClearIdle
  /\ RetryIdle
  /\ BatchIdle
  /\ HandleIdle
  /\ ChunkIdle
  /\ SendIdle
  /\ \E m \in 0..MaxQueue : queue = Ids(m) /\ initial = m
  /\ inflight = {}
  /\ envSent = 0
  /\ chanCap \in 0..MaxChanCap
  /\ consumerOn = TRUE
  /\ received = <<>>
  /\ deleted = {}
  /\ chanClosed = FALSE
  /\ chanBuf = <<>>
  /\ consumed = <<>>
  /\ pc = "loop"
  /\ max \in (-1)..MaxMax
  /\ batchSize \in 1..MaxBatch
  /\ remained = 0
  /\ got = 0
  /\ msgs = <<>>
  /\ published = <<>>
  /\ svcErr = "none"

\* --------------------------------------------------------- ReadMessages
\* remained, err := w.GetRemainedItems() with a successful query, then the
\* test remained == 0.
CountOk ==
  /\ pc = "loop"
  /\ remained' = GetRemainedItems(queue)
  /\ pc' = IF AllConsumed(remained') THEN "sendAllConsumed" ELSE "getMsgs"
  /\ UNCHANGED <<queue, inflight, envSent, chanCap, chanClosed, deleted,
                 consumerOn, received, chanBuf, consumed, max, batchSize, got,
                 msgs, published, svcErr, initial>>
  /\ UNCHANGED notDrain

\* GetQueueAttributes fails: res is nil and GetRemainedItems faults on
\* res.Attributes before it can return the error.
CountFail ==
  /\ pc = "loop"
  /\ svcErr' = "count"
  /\ pc' = "panicked"
  /\ UNCHANGED <<queue, inflight, envSent, chanCap, chanClosed, deleted,
                 consumerOn, received, chanBuf, consumed, max, batchSize,
                 remained, got, msgs, published, initial>>
  /\ UNCHANGED notDrain

\* chanResp <- NewSqsResp(nil, SqsReadAllConsumed); break
SendAllConsumed ==
  /\ pc = "sendAllConsumed"
  /\ IF chanClosed
       THEN SendOnClosed
       ELSE /\ Send(NewSqsResp(Nil, SqsReadAllConsumed))
            /\ pc' = AfterTerminal
            /\ UNCHANGED svcErr
  /\ UNCHANGED <<queue, inflight, envSent, chanCap, chanClosed, deleted,
                 consumerOn, received, max, batchSize, remained, got, msgs,
                 initial>>
  /\ UNCHANGED notDrain

\* msgs, err := w.GetMsgs() with a successful receive of k messages: the
\* long poll returns at least one message when one is visible.
GetMsgsOk ==
  /\ pc = "getMsgs"
  /\ \E k \in (IF queue = <<>> THEN 0 ELSE 1)..Min(batchSize, Len(queue)) :
       /\ msgs' = SubSeq(queue, 1, k)
       /\ received' = received \o SubSeq(queue, 1, k)
       /\ queue' = SubSeq(queue, k + 1, Len(queue))
       /\ inflight' = InFlightAfter(inflight, SubSeq(queue, 1, k))
       /\ pc' = IF k = 0 THEN "loop" ELSE "sendSuccess"
  /\ UNCHANGED <<envSent, chanCap, chanClosed, deleted, consumerOn, chanBuf,
                 consumed, max, batchSize, remained, got, published, svcErr,
                 initial>>
  /\ UNCHANGED notDrain

\* ReceiveMessage fails: msgs is nil, err is not.
GetMsgsFail ==
  /\ pc = "getMsgs"
  /\ svcErr' = "receive"
  /\ pc' = "sendFailed"
  /\ UNCHANGED <<queue, inflight, envSent, chanCap, chanClosed, deleted,
                 consumerOn, received, chanBuf, consumed, max, batchSize,
                 remained, got, msgs, published, initial>>
  /\ UNCHANGED notDrain

\* chanResp <- failed
SendFailed ==
  /\ pc = "sendFailed"
  /\ IF chanClosed
       THEN SendOnClosed
       ELSE /\ Send(NewSqsResp(Nil, SqsReadError))
            /\ pc' = "rangeNil"
            /\ UNCHANGED svcErr
  /\ UNCHANGED <<queue, inflight, envSent, chanCap, chanClosed, deleted,
                 consumerOn, received, max, batchSize, remained, got, msgs,
                 initial>>
  /\ UNCHANGED notDrain

\* for _, msg := range msgs.Messages after the failed receive: msgs is nil,
\* the read of its field faults.
RangeNilMsgs ==
  /\ pc = "rangeNil"
  /\ pc' = "panicked"
  /\ UNCHANGED <<queue, inflight, envSent, chanCap, chanClosed, deleted,
                 consumerOn, received, chanBuf, consumed, max, batchSize,
                 remained, got, msgs, published, svcErr, initial>>
  /\ UNCHANGED notDrain

\* One turn of the range over msgs.Messages: send the body, count it, test
\* the maximum.
SendSuccess ==
  /\ pc = "sendSuccess"
  /\ IF chanClosed
       THEN SendOnClosed /\ UNCHANGED <<got, msgs>>
       ELSE /\ Send(NewSqsResp(NextMsg(msgs), SqsReadSuccess))
            /\ got' = got + 1
            /\ msgs' = Tail(msgs)
            /\ pc' = AfterSuccess(max, got', msgs')
            /\ UNCHANGED svcErr
  /\ UNCHANGED <<queue, inflight, envSent, chanCap, chanClosed, deleted,
                 consumerOn, received, max, batchSize, remained, initial>>
  /\ UNCHANGED notDrain

\* chanResp <- NewSqsResp(nil, SqsReadMaximumReached); break OUTER
SendMaximum ==
  /\ pc = "sendMaximum"
  /\ IF chanClosed
       THEN SendOnClosed
       ELSE /\ Send(NewSqsResp(Nil, SqsReadMaximumReached))
            /\ pc' = AfterTerminal
            /\ UNCHANGED svcErr
  /\ UNCHANGED <<queue, inflight, envSent, chanCap, chanClosed, deleted,
                 consumerOn, received, max, batchSize, remained, got, msgs,
                 initial>>
  /\ UNCHANGED notDrain

\* ------------------------------------------------------------ environment
\* resp := <-ch on a buffered channel (an unbuffered one hands over in Send).
\* A panic of the producer goroutine ends the process, the consumer with it.
ConsumerReceive ==
  /\ pc # "panicked"
  /\ consumerOn
  /\ chanBuf # <<>>
  /\ consumed' = Append(consumed, Head(chanBuf))
  /\ chanBuf' = Tail(chanBuf)
  /\ UNCHANGED <<queue, inflight, envSent, chanCap, chanClosed, deleted,
                 consumerOn, received, pc, max, batchSize, remained, got,
                 msgs, published, svcErr, initial>>
  /\ UNCHANGED notDrain

\* The caller stops receiving from the channel; nothing tells the producer
\* (ReadMessages takes no context and no done channel).
ConsumerStop ==
  /\ pc # "panicked"
  /\ consumerOn
  /\ consumerOn' = FALSE
  /\ UNCHANGED <<queue, inflight, envSent, chanCap, chanClosed, deleted,
                 received, chanBuf, consumed, pc, max, batchSize, remained,
                 got, msgs, published, svcErr, initial>>
  /\ UNCHANGED notDrain

\* The statuses on which the caller leaves its receive loop (and its
\* deferred close(ch) runs).
ClosesOn_Any(status) == TRUE

ClosesOn(status) ==
  status \in {SqsReadError, SqsReadMaximumReached, SqsReadAllConsumed}

\* The caller, having received such a status, stops receiving and closes the
\* channel.
ConsumerClose ==
  /\ pc # "panicked"
  /\ consumerOn
  /\ consumed # <<>>
  /\ ClosesOn(consumed[Len(consumed)].Status)
  /\ consumerOn' = FALSE
  /\ chanClosed' = TRUE
  /\ UNCHANGED <<queue, inflight, envSent, chanCap, deleted, received,
                 chanBuf, consumed, pc, max, batchSize, remained, got, msgs,
                 published, svcErr, initial>>
  /\ UNCHANGED notDrain

\* The consumer deletes a message it was handed: w.DeleteMsg(handle), a call
\* of its own, outside ReadMessages.  It deletes in the order it was handed
\* the messages, at any later time or never.
ConsumerDelete ==
  /\ pc # "panicked"
  /\ \E i \in 1..Len(consumed) :
       /\ consumed[i].Status = SqsReadSuccess
       /\ consumed[i].Msg \in inflight
       /\ \A j \in 1..(i - 1) : consumed[j].Msg \notin inflight
       /\ inflight' = inflight \ {consumed[i].Msg}
       /\ deleted' = deleted \cup {consumed[i].Msg}
  /\ UNCHANGED <<queue, envSent, chanCap, chanClosed, consumerOn, received,
                 chanBuf, consumed, pc, max, batchSize, remained, got, msgs,
                 published, svcErr, initial>>
  /\ UNCHANGED notDrain

\* Another sender adds a message to the queue while the session runs.
EnvSend ==
  /\ pc \notin {"done", "panicked"}
  /\ envSent < MaxEnvSend
  /\ envSent' = envSent + 1
  /\ queue' = Append(queue, initial + envSent + 1)
  /\ UNCHANGED <<inflight, chanCap, chanClosed, deleted, consumerOn, received,
                 chanBuf, consumed, pc, max, batchSize, remained, got, msgs,
                 published, svcErr, initial>>
  /\ UNCHANGED notDrain

Next ==
  \/ CountOk
  \/ CountFail
  \/ SendAllConsumed
  \/ GetMsgsOk
  \/ GetMsgsFail
  \/ SendFailed
  \/ RangeNilMsgs
  \/ SendSuccess
  \/ SendMaximum
  \/ ConsumerReceive
  \/ ConsumerStop
  \/ ConsumerClose
  \/ ConsumerDelete
  \/ EnvSend

Spec == Init /\ [][Next]_vars

\* ------------------------------------------- a session that is left alone
\* The same session with a service that answers every call, no other sender
\* and a caller that keeps receiving: the steps of ReadMessages without the
\* failing calls, and the caller's receive.
ReadMessages ==
  \/ CountOk
  \/ SendAllConsumed
  \/ GetMsgsOk
  \/ SendSuccess
  \/ SendMaximum

LiveNext ==
  \/ CountOk
  \/ SendAllConsumed
  \/ GetMsgsOk
  \/ SendSuccess
  \/ SendMaximum
  \/ ConsumerReceive

\* The goroutine of ReadMessages and the caller's goroutine are each run by
\* the Go scheduler whenever they can take a step.
SpecLive ==
  /\ Init
  /\ [][LiveNext]_vars
  /\ WF_vars(ReadMessages)
  /\ WF_vars(ConsumerReceive)

\* ============================================================ ChunkSlice
Items == {"a", "b"}

SeqsUpTo(n) == UNION {[1..k -> Items] : k \in 0..n}

\* if len(slice) < chunkSize { chunkSize = len(slice) }
Clamp(len, size) == IF len < size THEN len ELSE size

\* slice[0:chunkSize]
Front(s, size) == SubSeq(s, 1, size)

\* slice[chunkSize:]
Rest_SkipOne(s, size) == SubSeq(s, size + 2, Len(s))

Rest(s, size) == SubSeq(s, size + 1, Len(s))

ChunkInit ==
  /\ S3Idle
  /\ AddIdle
  /\ UpsertIdle
  /\ FnsIdle
  /\ InvokeIdle
  /\ ListIdle
  /\ TwoIdle
  /\ ClearIdle
  /\ RetryIdle
  /\ BatchIdle
  /\ HandleIdle
  /\ DrainIdle
  /\ SendIdle
  /\ cInput \in SeqsUpTo(MaxLen)
  /\ cSize \in (-1)..MaxChunk
  /\ slice = cInput
  /\ chunkSize = cSize
  /\ chunks = <<>>
  /\ cpc = "loop"

\* if len(slice) == 0 { break }; return chunks
ChunkBreak ==
  /\ cpc = "loop"
  /\ Len(slice) = 0
  /\ cpc' = "done"
  /\ UNCHANGED <<slice, chunkSize, chunks, cInput, cSize>>
  /\ UNCHANGED notChunk

\* One turn of the loop with a chunk size the slice expression accepts:
\* clamp, append slice[0:chunkSize], keep slice[chunkSize:].  With a chunk
\* size of 0 the slice stays as it is and the loop never ends; the model
\* cuts such a run off after MaxChunks chunks.
ChunkAppend ==
  /\ cpc = "loop"
  /\ Len(slice) # 0
  /\ Clamp(Len(slice), chunkSize) >= 0
  /\ Len(chunks) < MaxChunks
  /\ chunkSize' = Clamp(Len(slice), chunkSize)
  /\ chunks' = Append(chunks, Front(slice, chunkSize'))
  /\ slice' = Rest(slice, chunkSize')
  /\ UNCHANGED <<cpc, cInput, cSize>>
  /\ UNCHANGED notChunk

\* One turn of the loop with a negative chunk size: slice[0:chunkSize]
\* panics (slice bounds out of range).
ChunkPanic ==
  /\ cpc = "loop"
  /\ Len(slice) # 0
  /\ Clamp(Len(slice), chunkSize) < 0
  /\ chunkSize' = Clamp(Len(slice), chunkSize)
  /\ cpc' = "panicked"
  /\ UNCHANGED <<slice, chunks, cInput, cSize>>
  /\ UNCHANGED notChunk

ChunkNext ==
  \/ ChunkBreak
  \/ ChunkAppend
  \/ ChunkPanic

SpecChunk == ChunkInit /\ [][ChunkNext]_vars

\* ====================================================== SendManyMessages
NoErr == [kind |-> "nil"]

\* fmt.Errorf("error sending batch: %w", err)
ErrSendingBatch == [kind |-> "error sending batch"]

\* fmt.Errorf("%w: failed to send %d messages in batch", ErrSendBatchFailed, n)
ErrSendBatchFailed(n) == [kind |-> "ErrSendBatchFailed", failed |-> n]

\* end := i + maxBatchSize; if end > len(messages) { end = len(messages) }
BatchEnd_Short(i, len) ==
  IF i + maxBatchSize > len THEN len ELSE i + maxBatchSize - 1

BatchEnd(i, len) ==
  IF i + maxBatchSize > len THEN len ELSE i + maxBatchSize

\* messages[i:end]
Batch(ms, i, end) == SubSeq(ms, i + 1, end)

\* SendMsgBatch: one entry per message, Id = position in the batch from 1
Entries(batch) ==
  [j \in 1..Len(batch) |-> [Id |-> j, MessageBody |-> batch[j]]]

\* the entries of es whose Id is in ids, in order
RECURSIVE Select(_, _)
Select(es, ids) ==
  IF es = <<>> THEN <<>>
  ELSE IF Head(es).Id \in ids
         THEN <<Head(es)>> \o Select(Tail(es), ids)
         ELSE Select(Tail(es), ids)

Bodies(es) == [j \in 1..Len(es) |-> es[j].MessageBody]

\* the SendMessageBatchOutput of a call whose entries with Id in f the
\* service rejects
BatchOutput(es, f) ==
  [Successful |-> Select(es, {e.Id : e \in Range(es)} \ f),
   Failed     |-> Select(es, f)]

\* totalSent += len(result.Successful)
Tally_WholeBatch(total, result) ==
  total + Len(result.Successful) + Len(result.Failed)

Tally(total, result) == total + Len(result.Successful)

\* if len(result.Failed) > 0 { return totalSent, ... }
StopOnFailed_Never(result) == FALSE

StopOnFailed(result) == Len(result.Failed) > 0

SendInit ==
  /\ S3Idle
  /\ AddIdle
  /\ UpsertIdle
  /\ FnsIdle
  /\ InvokeIdle
  /\ ListIdle
  /\ TwoIdle
  /\ ClearIdle
  /\ RetryIdle
  /\ BatchIdle
  /\ HandleIdle
  /\ DrainIdle
  /\ ChunkIdle
  /\ \E n \in 0..MaxMsgs : messages = Ids(n)
  /\ sidx = 0
  /\ totalSent = 0
  /\ calls = <<>>
  /\ sret = [total |-> 0, err |-> [kind |-> "none"]]
  /\ spc = "loop"

\* the loop condition i < len(messages) fails: return totalSent, nil
SendReturn ==
  /\ spc = "loop"
  /\ ~(sidx < Len(messages))
  /\ sret' = [total |-> totalSent, err |-> NoErr]
  /\ spc' = "returned"
  /\ UNCHANGED <<messages, sidx, totalSent, calls>>
  /\ UNCHANGED <<drainVars, notSend>>

\* One turn of the loop whose SendMsgBatch call the service answers: it
\* accepts the entries it does not reject (f) and queues their bodies.
SendBatchAnswered ==
  /\ spc = "loop"
  /\ sidx < Len(messages)
  /\ LET batch == Batch(messages, sidx, BatchEnd(sidx, Len(messages)))
         es    == Entries(batch)
     IN \E f \in SUBSET {e.Id : e \in Range(es)} :
          LET result == BatchOutput(es, f) IN
          /\ calls' = Append(calls, [entries |-> batch, failed |-> f,
                                     err |-> FALSE])
          /\ queue' = queue \o Bodies(result.Successful)
          /\ totalSent' = Tally(totalSent, result)
          /\ IF StopOnFailed(result)
               THEN /\ sret' = [total |-> totalSent',
                                err |-> ErrSendBatchFailed(Len(result.Failed))]
                    /\ spc' = "returned"
                    /\ UNCHANGED sidx
               ELSE /\ sidx' = sidx + maxBatchSize
                    /\ UNCHANGED <<sret, spc>>
  /\ UNCHANGED messages
  /\ UNCHANGED <<inflight, envSent, chanCap, chanClosed, deleted, consumerOn,
                 received, chanBuf, consumed, pc, max, batchSize, remained,
                 got, msgs, published, svcErr, initial>>
  /\ UNCHANGED notSend

\* One turn of the loop whose SendMsgBatch call fails as a whole.
SendBatchError ==
  /\ spc = "loop"
  /\ sidx < Len(messages)
  /\ LET batch == Batch(messages, sidx, BatchEnd(sidx, Len(messages)))
     IN calls' = Append(calls, [entries |-> batch, failed |-> {},
                                err |-> TRUE])
  /\ sret' = [total |-> totalSent, err |-> ErrSendingBatch]
  /\ spc' = "returned"
  /\ UNCHANGED <<messages, sidx, totalSent>>
  /\ UNCHANGED <<drainVars, notSend>>

SendNext ==
  \/ SendReturn
  \/ SendBatchAnswered
  \/ SendBatchError

SpecSend == SendInit /\ [][SendNext]_vars

\* ======================================================= the queue handle
Names == {"q1", "q2"}

\* the URL the service gives the queue of a name
URLOf == [n \in Names |-> IF n = "q1" THEN "https://sqs/q1" ELSE "https://sqs/q2"]

\* GetQueueURL(name): the URL and nil, or "" and the error of GetQueueUrl:
\* the queue does not exist, or the call fails for another reason (~ok)
GetQueueURL(name, rq, ok) ==
  IF ~ok THEN [url |-> "", err |-> "svc"]
  ELSE IF name \in rq THEN [url |-> URLOf[name], err |-> "nil"]
  ELSE [url |-> "", err |-> "NonExistentQueue"]

\* SetQueueURL(name): nothing for an empty name; otherwise QueueName = name
\* and QueueURL, _ = GetQueueURL(name), the error dropped
SetQueueURL_Keep(h, name, rq, ok) == h

SetQueueURL(h, name, rq, ok) ==
  IF name = "" THEN h
  ELSE [QueueName |-> name, QueueURL |-> GetQueueURL(name, rq, ok).url]

\* DeleteQueue: if url != w.QueueURL { return ErrQueueNameMismatch }
Mismatch_Never(url, handleURL) == FALSE

Mismatch(url, handleURL) == url # handleURL

\* DeleteQueue assigns neither w.QueueName nor w.QueueURL
AfterDelete_Reset(h) == [QueueName |-> h.QueueName, QueueURL |-> ""]

AfterDelete(h) == h

Handle == [QueueName |-> QueueName, QueueURL |-> QueueURL]

\* the messages SendMsg is given: a length in bytes and whether the bytes
\* are valid UTF-8 (the empty string is)
Messages ==
  {[len |-> l, utf8 |-> u] :
     l \in {0, 1, MaxMsgBytes, MaxMsgBytes + 1}, u \in BOOLEAN }
  \ {[len |-> 0, utf8 |-> FALSE]}

NoMsg == [len |-> 0, utf8 |-> TRUE]

\* the checks of SendMsg before the remote call, in their order
TooLong_Inclusive(m) == m.len >= MaxMsgBytes

TooLong(m) == m.len > MaxMsgBytes

Validate(m) ==
  IF m.len = 0 THEN "ErrEmptyMessageBody"
  ELSE IF ~m.utf8 THEN "ErrInvalidUTF8"
  ELSE IF TooLong(m) THEN "ErrMessageTooLong"
  ELSE "nil"

\* the record of one operation: its name, its arguments, the value and the
\* error it returned ("panic": it did not return), the number of remote
\* calls it issued that change the account (create, delete, send), and
\* whether a remote call failed for a reason other than the state of the
\* account
Op(op, name, msg, out, err, ncalls, fault) ==
  [op |-> op, name |-> name, msg |-> msg, out |-> out, err |-> err,
   calls |-> ncalls, fault |-> fault]

NotCreated == [name |-> "", clean |-> FALSE, gone |-> FALSE]

\* NewSqsClient(queue, ...): QueueName = queue, then SetQueueURL(queue)
HandleInit ==
  /\ S3Idle
  /\ AddIdle
  /\ UpsertIdle
  /\ FnsIdle
  /\ InvokeIdle
  /\ ListIdle
  /\ TwoIdle
  /\ ClearIdle
  /\ RetryIdle
  /\ BatchIdle
  /\ DrainIdle
  /\ ChunkIdle
  /\ SendIdle
  /\ remoteQueues \in SUBSET Names
  /\ stored = <<>>
  /\ \E qname \in Names \cup {""}, ok \in BOOLEAN :
       LET h == SetQueueURL([QueueName |-> qname, QueueURL |-> ""], qname,
                            remoteQueues, ok)
       IN /\ QueueName = h.QueueName
          /\ QueueURL = h.QueueURL
          /\ hNew = h
  /\ hop = Op("NewSqsClient", QueueName, NoMsg, QueueURL, "nil", 0, FALSE)
  /\ hstep = 0
  /\ created = NotCreated

Ready == hop.err # "panic" /\ hop.op # "idle" /\ hstep < MaxOps

\* CreateQueue(name) whose remote call succeeds: the queue exists, the handle
\* is pointed at it (SetQueueURL), the URL is returned.
CreateQueueOk ==
  /\ Ready
  /\ \E name \in Names, ok \in BOOLEAN :
       LET h == SetQueueURL(Handle, name, remoteQueues \cup {name}, ok) IN
       /\ remoteQueues' = remoteQueues \cup {name}
       /\ QueueName' = h.QueueName
       /\ QueueURL' = h.QueueURL
       /\ hop' = Op("CreateQueue", name, NoMsg, URLOf[name], "nil", 1, ~ok)
       /\ created' = [name |-> name, clean |-> ok, gone |-> FALSE]
  /\ hstep' = hstep + 1
  /\ UNCHANGED <<stored, hNew>>
  /\ UNCHANGED notHandle

\* CreateQueue(name) whose remote call fails (as it does for the empty
\* name): SetQueueURL(name) runs all the same, then *output.QueueUrl on the
\* nil output panics.
CreateQueueFail ==
  /\ Ready
  /\ \E name \in Names \cup {""}, ok \in BOOLEAN :
       LET h == SetQueueURL(Handle, name, remoteQueues, ok) IN
       /\ QueueName' = h.QueueName
       /\ QueueURL' = h.QueueURL
       /\ hop' = Op("CreateQueue", name, NoMsg, "", "panic", 1, TRUE)
  /\ hstep' = hstep + 1
  /\ created' = NotCreated
  /\ UNCHANGED <<remoteQueues, stored, hNew>>
  /\ UNCHANGED notHandle

\* The exported SetQueueURL(name).
SetQueueURLCall ==
  /\ Ready
  /\ \E name \in Names \cup {""}, ok \in BOOLEAN :
       LET h == SetQueueURL(Handle, name, remoteQueues, ok) IN
       /\ QueueName' = h.QueueName
       /\ QueueURL' = h.QueueURL
       /\ hop' = Op("SetQueueURL", name, NoMsg, "", "nil", 0, ~ok)
  /\ hstep' = hstep + 1
  /\ created' = NotCreated
  /\ UNCHANGED <<remoteQueues, stored, hNew>>
  /\ UNCHANGED notHandle

\* GetQueueURL(name)
GetQueueURLCall ==
  /\ Ready
  /\ \E name \in Names, ok \in BOOLEAN :
       LET r == GetQueueURL(name, remoteQueues, ok) IN
       hop' = Op("GetQueueURL", name, NoMsg, r.url, r.err, 0, ~ok)
  /\ hstep' = hstep + 1
  /\ UNCHANGED <<remoteQueues, stored, QueueName, QueueURL, created, hNew>>
  /\ UNCHANGED notHandle

\* DeleteQueue(name) whose MustGetQueueURL(name) panics: the name does not
\* resolve.
DeleteQueuePanic ==
  /\ Ready
  /\ \E name \in Names, ok \in BOOLEAN :
       /\ GetQueueURL(name, remoteQueues, ok).err # "nil"
       /\ hop' = Op("DeleteQueue", name, NoMsg, "", "panic", 0, ~ok)
  /\ hstep' = hstep + 1
  /\ UNCHANGED <<remoteQueues, stored, QueueName, QueueURL, created, hNew>>
  /\ UNCHANGED notHandle

\* DeleteQueue(name) with a resolved URL that is not the handle's.
DeleteQueueMismatch ==
  /\ Ready
  /\ \E name \in Names :
       LET r == GetQueueURL(name, remoteQueues, TRUE) IN
       /\ r.err = "nil"
       /\ Mismatch(r.url, QueueURL)
       /\ hop' = Op("DeleteQueue", name, NoMsg, "", "ErrQueueNameMismatch",
                    0, FALSE)
  /\ hstep' = hstep + 1
  /\ UNCHANGED <<remoteQueues, stored, QueueName, QueueURL, created, hNew>>
  /\ UNCHANGED notHandle

\* the messages in s that are not in the queue of a name
RECURSIVE Without(_, _)
Without(s, name) ==
  IF s = <<>> THEN <<>>
  ELSE IF Head(s).queue = name THEN Without(Tail(s), name)
  ELSE <<Head(s)>> \o Without(Tail(s), name)

\* DeleteQueue(name) that passes the check and issues the remote call, which
\* deletes the queue with its messages (ok) or fails.
DeleteQueueIssued ==
  /\ Ready
  /\ \E name \in Names, ok \in BOOLEAN :
       LET r == GetQueueURL(name, remoteQueues, TRUE)
           h == AfterDelete(Handle)
       IN
       /\ r.err = "nil"
       /\ ~Mismatch(r.url, QueueURL)
       /\ remoteQueues' = IF ok THEN remoteQueues \ {name} ELSE remoteQueues
       /\ stored' = IF ok THEN Without(stored, name) ELSE stored
       /\ QueueName' = h.QueueName
       /\ QueueURL' = h.QueueURL
       /\ hop' = Op("DeleteQueue", name, NoMsg, "",
                    IF ok THEN "nil" ELSE "svc", 1, ~ok)
       /\ created' = IF ok /\ created.name = name
                      THEN [created EXCEPT !.gone = TRUE] ELSE created
  /\ hstep' = hstep + 1
  /\ UNCHANGED hNew
  /\ UNCHANGED notHandle

\* the queues w.QueueURL addresses: one, or none
Addressed == {n \in remoteQueues : URLOf[n] = QueueURL}

\* SendMsg(message) that one of the three checks rejects: no remote call.
SendMsgRejected ==
  /\ Ready
  /\ \E m \in Messages :
       /\ Validate(m) # "nil"
       /\ hop' = Op("SendMsg", "", m, "", Validate(m), 0, FALSE)
  /\ hstep' = hstep + 1
  /\ UNCHANGED <<remoteQueues, stored, QueueName, QueueURL, created, hNew>>
  /\ UNCHANGED notHandle

\* SendMsg(message) that passes the checks: one SendMessage call to
\* w.QueueURL, which queues the message or fails.
SendMsgForwarded ==
  /\ Ready
  /\ Len(stored) < MaxStored
  /\ \E m \in Messages, ok \in BOOLEAN :
       /\ Validate(m) = "nil"
       /\ IF ok /\ Addressed # {}
            THEN /\ stored' = stored \o
                       <<[queue |-> CHOOSE n \in Addressed : TRUE, msg |-> m]>>
                 /\ hop' = Op("SendMsg", "", m, "output", "nil", 1, FALSE)
            ELSE /\ UNCHANGED stored
                 /\ hop' = Op("SendMsg", "", m, "", "svc", 1, TRUE)
  /\ hstep' = hstep + 1
  /\ UNCHANGED <<remoteQueues, QueueName, QueueURL, created, hNew>>
  /\ UNCHANGED notHandle

HandleNext ==
  \/ CreateQueueOk
  \/ CreateQueueFail
  \/ SetQueueURLCall
  \/ GetQueueURLCall
  \/ DeleteQueuePanic
  \/ DeleteQueueMismatch
  \/ DeleteQueueIssued
  \/ SendMsgRejected
  \/ SendMsgForwarded

SpecHandle == HandleInit /\ [][HandleNext]_vars

\* =========================================================== SendMsgBatch
NilOutput == [Successful |-> <<>>, Failed |-> <<>>]

BatchInit ==
  /\ S3Idle
  /\ AddIdle
  /\ UpsertIdle
  /\ FnsIdle
  /\ InvokeIdle
  /\ ListIdle
  /\ TwoIdle
  /\ ClearIdle
  /\ RetryIdle
  /\ HandleIdle
  /\ DrainIdle
  /\ ChunkIdle
  /\ SendIdle
  /\ \E n \in 0..MaxBatchMsgs : bMessages = Ids(n)
  /\ bSent = <<>>
  /\ bret = [nil |-> TRUE, out |-> NilOutput, err |-> "none"]
  /\ bpc = "call"

\* len(messages) == 0: return nil, ErrMessageEmpty
BatchEmpty ==
  /\ bpc = "call"
  /\ Len(bMessages) = 0
  /\ bret' = [nil |-> TRUE, out |-> NilOutput, err |-> "ErrMessageEmpty"]
  /\ bpc' = "returned"
  /\ UNCHANGED <<bMessages, bSent>>
  /\ UNCHANGED <<drainVars, notBatch>>

\* One entry per message, all of them in one SendMessageBatch call, which the
\* service answers (it takes no more than maxBatchSize entries): the entries
\* with Id in f rejected, the others queued; return res, nil.
BatchAnswered ==
  /\ bpc = "call"
  /\ Len(bMessages) > 0
  /\ LET es == Entries(bMessages) IN
     /\ Len(es) <= maxBatchSize
     /\ \E f \in SUBSET (1..Min(Len(es), MaxFailIds)) :
          LET result == BatchOutput(es, f) IN
          /\ bSent' = Append(bSent, es)
          /\ queue' = queue \o Bodies(result.Successful)
          /\ bret' = [nil |-> FALSE, out |-> result, err |-> "nil"]
  /\ bpc' = "returned"
  /\ UNCHANGED bMessages
  /\ UNCHANGED <<inflight, envSent, chanCap, chanClosed, deleted, consumerOn,
                 received, chanBuf, consumed, pc, max, batchSize, remained,
                 got, msgs, published, svcErr, initial>>
  /\ UNCHANGED notBatch

\* The same call failing as a whole, as it does with more than maxBatchSize
\* entries: return nil, err.
BatchError ==
  /\ bpc = "call"
  /\ Len(bMessages) > 0
  /\ bSent' = Append(bSent, Entries(bMessages))
  /\ bret' = [nil |-> TRUE, out |-> NilOutput, err |-> "svc"]
  /\ bpc' = "returned"
  /\ UNCHANGED bMessages
  /\ UNCHANGED <<drainVars, notBatch>>

BatchNext ==
  \/ BatchEmpty
  \/ BatchAnswered
  \/ BatchError

SpecBatch == BatchInit /\ [][BatchNext]_vars

\* ======================================================= SendMsgWithRetry
\* retry.Do of avast/retry-go v3.0.0, with the option Attempts(retries) and
\* the default RetryIf (every error of SendMsg is retried):
\*   for n < attempts { err := f(); if err == nil { return nil };
\*     if n == attempts-1 { break }; sleep; n++ }; return errorLog
\* where errorLog, a slice, is a non-nil error also when it is empty.
RetryContinue_Inclusive(n, attempts) == n <= attempts

RetryContinue(n, attempts) == n < attempts

\* if n == config.attempts-1 { break }
LastAttempt(n, attempts) == n = attempts - 1

\* fmt.Errorf("failed to send message after %d attempts: %w", ...)
ErrRetry == "failed to send message"

RetryInit ==
  /\ S3Idle
  /\ AddIdle
  /\ UpsertIdle
  /\ FnsIdle
  /\ InvokeIdle
  /\ ListIdle
  /\ TwoIdle
  /\ ClearIdle
  /\ BatchIdle
  /\ HandleIdle
  /\ DrainIdle
  /\ ChunkIdle
  /\ SendIdle
  /\ rMessage \in Messages
  /\ rRetries \in 0..MaxRetries
  /\ rN = 0
  /\ rAttempts = <<>>
  /\ rret = [nil |-> TRUE, out |-> 0, err |-> "none"]
  /\ rpc = "loop"

\* An attempt in which SendMsg returns nil: the message is queued, retry.Do
\* returns nil, SendMsgWithRetry returns the output of this attempt.
RetryAttemptOk ==
  /\ rpc = "loop"
  /\ RetryContinue(rN, rRetries)
  /\ Validate(rMessage) = "nil"
  /\ rAttempts' = Append(rAttempts, [err |-> "nil", calls |-> 1])
  /\ queue' = Append(queue, Len(rAttempts'))
  /\ rret' = [nil |-> FALSE, out |-> Len(rAttempts'), err |-> "nil"]
  /\ rpc' = "returned"
  /\ UNCHANGED <<rMessage, rRetries, rN>>
  /\ UNCHANGED <<inflight, envSent, chanCap, chanClosed, deleted, consumerOn,
                 received, chanBuf, consumed, pc, max, batchSize, remained,
                 got, msgs, published, svcErr, initial>>
  /\ UNCHANGED notRetry

\* An attempt in which SendMsg returns an error (of its checks, or of the
\* remote call): the last one ends the loop and SendMsgWithRetry returns
\* nil and the wrapped error, any other is followed by n++.
RetryAttemptFail ==
  /\ rpc = "loop"
  /\ RetryContinue(rN, rRetries)
  /\ LET e == Validate(rMessage) IN
     rAttempts' = Append(rAttempts,
                         IF e # "nil" THEN [err |-> e, calls |-> 0]
                         ELSE [err |-> "svc", calls |-> 1])
  /\ IF LastAttempt(rN, rRetries)
       THEN /\ rret' = [nil |-> TRUE, out |-> 0, err |-> ErrRetry]
            /\ rpc' = "returned"
            /\ UNCHANGED rN
       ELSE /\ rN' = rN + 1
            /\ UNCHANGED <<rret, rpc>>
  /\ UNCHANGED <<rMessage, rRetries>>
  /\ UNCHANGED <<drainVars, notRetry>>

\* The loop condition fails: retry.Do returns its (empty or full) error log,
\* SendMsgWithRetry returns nil and the wrapped error.
RetryGiveUp ==
  /\ rpc = "loop"
  /\ ~RetryContinue(rN, rRetries)
  /\ rret' = [nil |-> TRUE, out |-> 0, err |-> ErrRetry]
  /\ rpc' = "returned"
  /\ UNCHANGED <<rMessage, rRetries, rN, rAttempts>>
  /\ UNCHANGED <<drainVars, notRetry>>

RetryNext ==
  \/ RetryAttemptOk
  \/ RetryAttemptFail
  \/ RetryGiveUp

SpecRetry == RetryInit /\ [][RetryNext]_vars

\* ============================================================= ClearQueue
\* the drain session's part of the state that ClearQueue leaves alone (it
\* receives from and deletes in the queue)
clearFrame == <<chanCap, chanClosed, deleted, consumerOn, received, chanBuf,
                consumed, pc, max, batchSize, remained, got, msgs, published,
                svcErr, initial>>

\* messagesCleared++ follows a DeleteMsg that returned no error
Counted_Attempts(n, ok) == n + 1

Counted(n, ok) == IF ok THEN n + 1 ELSE n

ClearInit ==
  /\ S3Idle
  /\ AddIdle
  /\ UpsertIdle
  /\ FnsIdle
  /\ InvokeIdle
  /\ ListIdle
  /\ TwoIdle
  /\ RetryIdle
  /\ BatchIdle
  /\ HandleIdle
  /\ ChunkIdle
  /\ SendIdle
  /\ \E m \in 0..MaxClear : queue = Ids(m) /\ initial = m
  /\ inflight = {} /\ envSent = 0
  /\ consumerOn = FALSE /\ received = <<>> /\ deleted = {}
  /\ chanClosed = FALSE
  /\ chanCap = 0 /\ chanBuf = <<>> /\ consumed = <<>> /\ pc = "idle"
  /\ max = 0 /\ batchSize = 1 /\ remained = 0 /\ got = 0 /\ msgs = <<>>
  /\ published = <<>> /\ svcErr = "none"
  /\ cleared = 0
  /\ kMsgs = <<>>
  /\ kDeletes = 0
  /\ kErrors = 0
  /\ kSender \in BOOLEAN
  /\ kret = [n |-> 0, err |-> "none"]
  /\ kpc = "loop"

\* GetMsgs(BatchSize(MaxBatchSize)) returns messages: a prefix of the queue
\* of at most MaxBatchSize, not empty (the receive is a long poll).
ClearReceive ==
  /\ kpc = "loop"
  /\ queue # <<>>
  /\ \E k \in 1..Min(maxBatchSize, Len(queue)) :
       /\ kMsgs' = SubSeq(queue, 1, k)
       /\ queue' = SubSeq(queue, k + 1, Len(queue))
       /\ inflight' = inflight \cup Range(SubSeq(queue, 1, k))
  /\ kpc' = "delete"
  /\ UNCHANGED <<cleared, kDeletes, kErrors, kSender, kret>>
  /\ UNCHANGED <<envSent, clearFrame, notClear>>

\* GetMsgs returns no message: break, return messagesCleared, nil
ClearReturn ==
  /\ kpc = "loop"
  /\ queue = <<>>
  /\ kret' = [n |-> cleared, err |-> "nil"]
  /\ kpc' = "returned"
  /\ UNCHANGED <<cleared, kMsgs, kDeletes, kErrors, kSender>>
  /\ UNCHANGED <<drainVars, notClear>>

\* GetMsgs fails: return messagesCleared, "failed to receive messages"
ClearReceiveFail ==
  /\ kpc = "loop"
  /\ kErrors' = kErrors + 1
  /\ kret' = [n |-> cleared, err |-> "failed to receive messages"]
  /\ kpc' = "returned"
  /\ UNCHANGED <<cleared, kMsgs, kDeletes, kSender>>
  /\ UNCHANGED <<drainVars, notClear>>

\* DeleteMsg of the next message of the batch succeeds: messagesCleared++
ClearDeleteOk ==
  /\ kpc = "delete"
  /\ inflight' = inflight \ {Head(kMsgs)}
  /\ kDeletes' = kDeletes + 1
  /\ cleared' = Counted(cleared, TRUE)
  /\ kMsgs' = Tail(kMsgs)
  /\ kpc' = IF kMsgs' = <<>> THEN "loop" ELSE "delete"
  /\ UNCHANGED <<kErrors, kSender, kret>>
  /\ UNCHANGED <<queue, envSent, clearFrame, notClear>>

\* DeleteMsg fails: return messagesCleared, "failed to delete message"
ClearDeleteFail ==
  /\ kpc = "delete"
  /\ kErrors' = kErrors + 1
  /\ cleared' = Counted(cleared, FALSE)
  /\ kret' = [n |-> cleared', err |-> "failed to delete message"]
  /\ kpc' = "returned"
  /\ UNCHANGED <<kMsgs, kDeletes, kSender>>
  /\ UNCHANGED <<drainVars, notClear>>

\* Another sender adds a message to the queue while ClearQueue runs.
ClearEnvSend ==
  /\ kSender
  /\ kpc \in {"loop", "delete"}
  /\ envSent < MaxEnvSend
  /\ envSent' = envSent + 1
  /\ queue' = Append(queue, initial + envSent + 1)
  /\ UNCHANGED clearVars
  /\ UNCHANGED <<inflight, clearFrame, notClear>>

ClearNext ==
  \/ ClearReceive
  \/ ClearReturn
  \/ ClearReceiveFail
  \/ ClearDeleteOk
  \/ ClearDeleteFail
  \/ ClearEnvSend

SpecClear == ClearInit /\ [][ClearNext]_vars

\* ================================================ two sessions, one client
\* Two goroutines run ReadMessages on the same SqsClient, each with its own
\* channel and options.  Each channel has a consumer that takes every
\* response at once: a producer waiting for its consumer is a producer that
\* takes no step, which the interleaving of the two already allows.
Sessions == {1, 2}

\* got := 0 is a variable of the call: session s counts in its own tally
TallyOf_Shared(s) == 1

TallyOf(s) == s

Alive == \A s \in Sessions : tpc[s] # "panicked"

TwoInit ==
  /\ S3Idle
  /\ AddIdle
  /\ UpsertIdle
  /\ FnsIdle
  /\ InvokeIdle
  /\ ListIdle
  /\ ClearIdle
  /\ RetryIdle
  /\ BatchIdle
  /\ HandleIdle
  /\ DrainIdle
  /\ ChunkIdle
  /\ SendIdle
  /\ \E m \in 0..MaxTwoQueue : tqueue = Ids(m)
  /\ tinflight = {}
  /\ tbatch \in 1..MaxTwoBatch
  /\ tmax \in [Sessions -> (-1)..MaxTwoMax]
  /\ tgot = [s \in Sessions |-> 0]
  /\ tmsgs = [s \in Sessions |-> <<>>]
  /\ tremained = [s \in Sessions |-> 0]
  /\ tpub = [s \in Sessions |-> <<>>]
  /\ tpc = [s \in Sessions |-> "loop"]

\* remained, err := w.GetRemainedItems() succeeds; the test remained == 0
TwoCountOk(s) ==
  /\ Alive
  /\ tpc[s] = "loop"
  /\ tremained' = [tremained EXCEPT ![s] = GetRemainedItems(tqueue)]
  /\ tpc' = [tpc EXCEPT ![s] = IF AllConsumed(tremained'[s])
                                 THEN "sendAllConsumed" ELSE "getMsgs"]
  /\ UNCHANGED <<tqueue, tinflight, tbatch, tmax, tgot, tmsgs, tpub>>
  /\ UNCHANGED notTwo

\* GetRemainedItems faults on the nil output: the process ends
TwoCountFail(s) ==
  /\ Alive
  /\ tpc[s] = "loop"
  /\ tpc' = [tpc EXCEPT ![s] = "panicked"]
  /\ UNCHANGED <<tqueue, tinflight, tbatch, tmax, tgot, tmsgs, tremained,
                 tpub>>
  /\ UNCHANGED notTwo

\* chanResp <- NewSqsResp(nil, SqsReadAllConsumed); break
TwoSendAllConsumed(s) ==
  /\ Alive
  /\ tpc[s] = "sendAllConsumed"
  /\ tpub' = [tpub EXCEPT ![s] =
                Append(@, NewSqsResp(Nil, SqsReadAllConsumed))]
  /\ tpc' = [tpc EXCEPT ![s] = AfterTerminal]
  /\ UNCHANGED <<tqueue, tinflight, tbatch, tmax, tgot, tmsgs, tremained>>
  /\ UNCHANGED notTwo

\* msgs, err := w.GetMsgs() succeeds with k messages
TwoGetMsgsOk(s) ==
  /\ Alive
  /\ tpc[s] = "getMsgs"
  /\ \E k \in (IF tqueue = <<>> THEN 0 ELSE 1)..Min(tbatch, Len(tqueue)) :
       /\ tmsgs' = [tmsgs EXCEPT ![s] = SubSeq(tqueue, 1, k)]
       /\ tqueue' = SubSeq(tqueue, k + 1, Len(tqueue))
       /\ tinflight' = tinflight \cup Range(SubSeq(tqueue, 1, k))
       /\ tpc' = [tpc EXCEPT ![s] = IF k = 0 THEN "loop" ELSE "sendSuccess"]
  /\ UNCHANGED <<tbatch, tmax, tgot, tremained, tpub>>
  /\ UNCHANGED notTwo

\* ReceiveMessage fails
TwoGetMsgsFail(s) ==
  /\ Alive
  /\ tpc[s] = "getMsgs"
  /\ tpc' = [tpc EXCEPT ![s] = "sendFailed"]
  /\ UNCHANGED <<tqueue, tinflight, tbatch, tmax, tgot, tmsgs, tremained,
                 tpub>>
  /\ UNCHANGED notTwo

\* chanResp <- failed, then the range over the nil msgs faults
TwoSendFailed(s) ==
  /\ Alive
  /\ tpc[s] = "sendFailed"
  /\ tpub' = [tpub EXCEPT ![s] = Append(@, NewSqsResp(Nil, SqsReadError))]
  /\ tpc' = [tpc EXCEPT ![s] = "panicked"]
  /\ UNCHANGED <<tqueue, tinflight, tbatch, tmax, tgot, tmsgs, tremained>>
  /\ UNCHANGED notTwo

\* one turn of the range: send the body, got += 1, test the maximum
TwoSendSuccess(s) ==
  /\ Alive
  /\ tpc[s] = "sendSuccess"
  /\ tpub' = [tpub EXCEPT ![s] =
                Append(@, NewSqsResp(NextMsg(tmsgs[s]), SqsReadSuccess))]
  /\ tgot' = [tgot EXCEPT ![TallyOf(s)] = @ + 1]
  /\ tmsgs' = [tmsgs EXCEPT ![s] = Tail(@)]
  /\ tpc' = [tpc EXCEPT ![s] =
               AfterSuccess(tmax[s], tgot'[TallyOf(s)], tmsgs'[s])]
  /\ UNCHANGED <<tqueue, tinflight, tbatch, tmax, tremained>>
  /\ UNCHANGED notTwo

\* chanResp <- NewSqsResp(nil, SqsReadMaximumReached); break OUTER
TwoSendMaximum(s) ==
  /\ Alive
  /\ tpc[s] = "sendMaximum"
  /\ tpub' = [tpub EXCEPT ![s] =
                Append(@, NewSqsResp(Nil, SqsReadMaximumReached))]
  /\ tpc' = [tpc EXCEPT ![s] = AfterTerminal]
  /\ UNCHANGED <<tqueue, tinflight, tbatch, tmax, tgot, tmsgs, tremained>>
  /\ UNCHANGED notTwo

TwoNext ==
  \E s \in Sessions :
    \/ TwoCountOk(s)
    \/ TwoCountFail(s)
    \/ TwoSendAllConsumed(s)
    \/ TwoGetMsgsOk(s)
    \/ TwoGetMsgsFail(s)
    \/ TwoSendFailed(s)
    \/ TwoSendSuccess(s)
    \/ TwoSendMaximum(s)

SpecTwo == TwoInit /\ [][TwoNext]_vars

\* ============================================================ ListObjects
\* the range over resp.Contents: a filtered item is skipped, any other is
\* appended, and the range ends when maxKeys != 0 && len(found) >= maxKeys
RECURSIVE PageScan(_, _, _, _)
PageScan(found, objs, keys, n) ==
  IF keys = <<>> THEN found
  ELSE IF ~objs[Head(keys)] THEN PageScan(found, objs, Tail(keys), n)
  ELSE LET f == Append(found, Head(keys)) IN
       IF n # 0 /\ Len(f) >= n THEN f
       ELSE PageScan(f, objs, Tail(keys), n)

\* if opt.maxKeys != 0 && len(found) > opt.maxKeys
OverMaxKeys(found, n) == n # 0 /\ Len(found) > n

ListInit ==
  /\ S3Idle
  /\ AddIdle
  /\ UpsertIdle
  /\ FnsIdle
  /\ InvokeIdle
  /\ TwoIdle
  /\ ClearIdle
  /\ RetryIdle
  /\ BatchIdle
  /\ HandleIdle
  /\ DrainIdle
  /\ ChunkIdle
  /\ SendIdle
  /\ \E k \in 0..MaxObjects : lObjects \in [1..k -> BOOLEAN]
  /\ lMaxKeys \in 0..MaxKeys
  /\ lPos = 0
  /\ lFound = <<>>
  /\ lPages = 0
  /\ lret = [found |-> <<>>, err |-> "none"]
  /\ lpc = "loop"

\* One turn of the loop with a ListObjectsV2 call that succeeds: the page
\* holds the next p objects (at most MaxKeys of the request when it is set)
\* and IsTruncated tells whether more follow.
ListPage ==
  /\ lpc = "loop"
  /\ LET left == Len(lObjects) - lPos
         most == IF lMaxKeys # 0 THEN Min(lMaxKeys, left) ELSE left
     IN \E p \in (IF left = 0 THEN 0 ELSE 1)..most :
          LET keys == [i \in 1..p |-> lPos + i]
              f == PageScan(lFound, lObjects, keys, lMaxKeys)
              truncated == lPos + p < Len(lObjects)
          IN /\ lPos' = lPos + p
             /\ IF ~truncated
                  THEN /\ lFound' = f
                       /\ lret' = [found |-> f, err |-> "nil"]
                       /\ lpc' = "returned"
                  ELSE IF OverMaxKeys(f, lMaxKeys)
                  THEN /\ lFound' = SubSeq(f, 1, lMaxKeys)
                       /\ lret' = [found |-> lFound', err |-> "nil"]
                       /\ lpc' = "returned"
                  ELSE /\ lFound' = f
                       /\ UNCHANGED <<lret, lpc>>
  /\ lPages' = lPages + 1
  /\ UNCHANGED <<lObjects, lMaxKeys>>
  /\ UNCHANGED notList

\* The ListObjectsV2 call fails: return found, err
ListError ==
  /\ lpc = "loop"
  /\ lPages' = lPages + 1
  /\ lret' = [found |-> lFound, err |-> "svc"]
  /\ lpc' = "returned"
  /\ UNCHANGED <<lObjects, lMaxKeys, lPos, lFound>>
  /\ UNCHANGED notList

ListNext ==
  \/ ListPage
  \/ ListError

SpecList == ListInit /\ [][ListNext]_vars

\* ================================================== FunctionWrapper.Invoke
\* InvokeSync: return w.Invoke(payload, getLog, true)
SyncArgs(getLog) == [getLog |-> getLog, asyncMode |-> TRUE]

\* InvokeAsync: return w.Invoke(payload, false, false)
AsyncArgs(getLog) == [getLog |-> FALSE, asyncMode |-> FALSE]

\* the request Invoke builds from its arguments
InvokeInput(a) ==
  [LogType |-> IF a.getLog THEN "Tail" ELSE "None",
   InvocationType |-> IF a.asyncMode THEN "Event" ELSE "RequestResponse"]

InvokeInit ==
  /\ S3Idle
  /\ AddIdle
  /\ UpsertIdle
  /\ FnsIdle
  /\ ListIdle
  /\ TwoIdle
  /\ ClearIdle
  /\ RetryIdle
  /\ BatchIdle
  /\ HandleIdle
  /\ DrainIdle
  /\ ChunkIdle
  /\ SendIdle
  /\ dryRun \in BOOLEAN
  /\ asyncMode = FALSE
  /\ invoked = <<>>
  /\ iop = [op |-> "NewFunctionWrapper", getLog |-> FALSE, nil |-> TRUE,
            err |-> "nil"]

\* Invoke(payload, a.getLog, a.asyncMode): w.asyncMode is set; with dryRun
\* the call sends nothing and returns nil, nil; otherwise one Invoke request
\* is sent and its output and error are returned.
Invoke(a, dry, ok) ==
  [asyncMode |-> a.asyncMode,
   sent |-> IF dry THEN <<>> ELSE <<InvokeInput(a)>>,
   nil |-> dry \/ ~ok,
   err |-> IF dry \/ ok THEN "nil" ELSE "svc"]

InvokeSync ==
  /\ \E getLog \in BOOLEAN, ok \in BOOLEAN :
       LET r == Invoke(SyncArgs(getLog), dryRun, ok) IN
       /\ Len(invoked) + Len(r.sent) <= MaxInvokes
       /\ asyncMode' = r.asyncMode
       /\ invoked' = invoked \o r.sent
       /\ iop' = [op |-> "InvokeSync", getLog |-> getLog, nil |-> r.nil,
                  err |-> r.err]
  /\ UNCHANGED dryRun
  /\ UNCHANGED notInvoke

InvokeAsync ==
  /\ \E getLog \in BOOLEAN, ok \in BOOLEAN :
       LET r == Invoke(AsyncArgs(getLog), dryRun, ok) IN
       /\ Len(invoked) + Len(r.sent) <= MaxInvokes
       /\ asyncMode' = r.asyncMode
       /\ invoked' = invoked \o r.sent
       /\ iop' = [op |-> "InvokeAsync", getLog |-> getLog, nil |-> r.nil,
                  err |-> r.err]
  /\ UNCHANGED dryRun
  /\ UNCHANGED notInvoke

InvokeNext ==
  \/ InvokeSync
  \/ InvokeAsync

SpecInvoke == InvokeInit /\ [][InvokeNext]_vars

\* ==================================================== FunctionWrapper.List
\* for paginator.HasMorePages() && len(fns) < maxItems
ListMore(more, found, n) == more /\ Len(found) < n

FnsInit ==
  /\ S3Idle
  /\ AddIdle
  /\ UpsertIdle
  /\ InvokeIdle
  /\ ListIdle
  /\ TwoIdle
  /\ ClearIdle
  /\ RetryIdle
  /\ BatchIdle
  /\ HandleIdle
  /\ DrainIdle
  /\ ChunkIdle
  /\ SendIdle
  /\ fAccount \in 0..MaxFns
  /\ maxItems \in 0..MaxItems
  /\ fPos = 0
  /\ fMore = TRUE
  /\ fns = <<>>
  /\ fPages = 0
  /\ fret = [fns |-> <<>>, err |-> "none"]
  /\ fpc = "loop"

\* paginator.NextPage succeeds: the page holds the next p functions, at most
\* MaxItems of the request, and carries a marker when more follow;
\* fns = append(fns, po.Functions...)
FnsPage ==
  /\ fpc = "loop"
  /\ ListMore(fMore, fns, maxItems)
  /\ LET left == fAccount - fPos IN
     \E p \in (IF left = 0 THEN 0 ELSE 1)..Min(maxItems, left) :
       /\ fns' = fns \o [i \in 1..p |-> fPos + i]
       /\ fPos' = fPos + p
       /\ fMore' = (fPos + p < fAccount)
  /\ fPages' = fPages + 1
  /\ UNCHANGED <<fAccount, maxItems, fret, fpc>>
  /\ UNCHANGED notFns

\* paginator.NextPage fails: return nil, err
FnsError ==
  /\ fpc = "loop"
  /\ ListMore(fMore, fns, maxItems)
  /\ fPages' = fPages + 1
  /\ fret' = [fns |-> <<>>, err |-> "svc"]
  /\ fpc' = "returned"
  /\ UNCHANGED <<fAccount, maxItems, fPos, fMore, fns>>
  /\ UNCHANGED notFns

\* the loop condition fails: return fns, nil
FnsReturn ==
  /\ fpc = "loop"
  /\ ~ListMore(fMore, fns, maxItems)
  /\ fret' = [fns |-> fns, err |-> "nil"]
  /\ fpc' = "returned"
  /\ UNCHANGED <<fAccount, maxItems, fPos, fMore, fns, fPages>>
  /\ UNCHANGED notFns

FnsNext ==
  \/ FnsPage
  \/ FnsError
  \/ FnsReturn

SpecFns == FnsInit /\ [][FnsNext]_vars

\* ================================================ SchedulerWrapper.Upsert
\* schedule names, as sequences of characters
ScheduleNames == {<<"a">>, <<"a", "b">>, <<"a", "b", "c">>, <<"b">>}

IsPrefix(p, n) == Len(p) <= Len(n) /\ SubSeq(n, 1, Len(p)) = p

\* ListSchedulers(name): ListSchedules with NamePrefix = name
ListSchedulers(name, group) == {n \in group : IsPrefix(name, n)}

\* if len(output.Schedules) == 0 { Create } else { Update }
UpsertCall(listed) == IF listed = {} THEN "Create" ELSE "Update"

UpsertInit ==
  /\ S3Idle
  /\ AddIdle
  /\ FnsIdle
  /\ InvokeIdle
  /\ ListIdle
  /\ TwoIdle
  /\ ClearIdle
  /\ RetryIdle
  /\ BatchIdle
  /\ HandleIdle
  /\ DrainIdle
  /\ ChunkIdle
  /\ SendIdle
  /\ schedules \in SUBSET ScheduleNames
  /\ ustep = 0
  /\ uop = [op |-> "NewSchedulerWrapper", name |-> <<>>, existed |-> FALSE,
            call |-> "none", err |-> "nil"]

\* Upsert(name, ...) whose ListSchedules call fails: return err
UpsertListFail ==
  /\ ustep < MaxUpserts
  /\ \E name \in ScheduleNames :
       uop' = [op |-> "Upsert", name |-> name, existed |-> name \in schedules,
               call |-> "none", err |-> "svc"]
  /\ ustep' = ustep + 1
  /\ UNCHANGED schedules
  /\ UNCHANGED notUpsert

\* Upsert(name, ...) that finds no schedule with the prefix: Create(name),
\* which adds the schedule or fails.
UpsertCreate ==
  /\ ustep < MaxUpserts
  /\ \E name \in ScheduleNames, ok \in BOOLEAN :
       /\ UpsertCall(ListSchedulers(name, schedules)) = "Create"
       /\ schedules' = IF ok THEN schedules \cup {name} ELSE schedules
       /\ uop' = [op |-> "Upsert", name |-> name,
                  existed |-> name \in schedules, call |-> "Create",
                  err |-> IF ok THEN "nil" ELSE "svc"]
  /\ ustep' = ustep + 1
  /\ UNCHANGED notUpsert

\* Upsert(name, ...) that finds a schedule with the prefix: Update(name),
\* which the service refuses when no schedule has that name.
UpsertUpdate ==
  /\ ustep < MaxUpserts
  /\ \E name \in ScheduleNames, ok \in BOOLEAN :
       /\ UpsertCall(ListSchedulers(name, schedules)) = "Update"
       /\ uop' = [op |-> "Upsert", name |-> name,
                  existed |-> name \in schedules, call |-> "Update",
                  err |-> IF name \notin schedules
                            THEN "ResourceNotFoundException"
                            ELSE IF ok THEN "nil" ELSE "svc"]
  /\ ustep' = ustep + 1
  /\ UNCHANGED schedules
  /\ UNCHANGED notUpsert

UpsertNext ==
  \/ UpsertListFail
  \/ UpsertCreate
  \/ UpsertUpdate

SpecUpsert == UpsertInit /\ [][UpsertNext]_vars

\* ========================================================== AddItemBatch
\* if end > len(data) { end = len(data) }
ClampEnd(e, n) == IF e > n THEN n ELSE e

\* wrArr = data[start:end]
WrArr(d, s, e) == SubSeq(d, s + 1, e)

\* written := 0; batchSize := 25; start := 0; end := start + batchSize
AddInit ==
  /\ S3Idle
  /\ UpsertIdle
  /\ FnsIdle
  /\ InvokeIdle
  /\ ListIdle
  /\ TwoIdle
  /\ ClearIdle
  /\ RetryIdle
  /\ BatchIdle
  /\ HandleIdle
  /\ DrainIdle
  /\ ChunkIdle
  /\ SendIdle
  /\ \E n \in 0..MaxData : dData = Ids(n)
  /\ dStart = 0
  /\ dEnd = ddbBatchSize
  /\ dWritten = 0
  /\ dErr = "nil"
  /\ dCalls = <<>>
  /\ dret = [written |-> 0, err |-> "nil"]
  /\ dpc = "loop"

\* One turn of the loop with a BatchWriteItem that succeeds: err is assigned
\* nil and the batch is counted.
AddBatchOk ==
  /\ dpc = "loop"
  /\ dStart < Len(dData)
  /\ LET e == ClampEnd(dEnd, Len(dData)) IN
       /\ dCalls' = Append(dCalls, [batch |-> WrArr(dData, dStart, e),
                                    ok |-> TRUE])
       /\ dErr' = "nil"
       /\ dWritten' = dWritten + Len(WrArr(dData, dStart, e))
       /\ dStart' = e
       /\ dEnd' = e + ddbBatchSize
  /\ UNCHANGED <<dData, dret, dpc>>
  /\ UNCHANGED notAdd

\* One turn of the loop with a BatchWriteItem that fails: err is assigned the
\* error, nothing is counted, the loop goes on.
AddBatchFail ==
  /\ dpc = "loop"
  /\ dStart < Len(dData)
  /\ LET e == ClampEnd(dEnd, Len(dData)) IN
       /\ dCalls' = Append(dCalls, [batch |-> WrArr(dData, dStart, e),
                                    ok |-> FALSE])
       /\ dErr' = "svc"
       /\ dStart' = e
       /\ dEnd' = e + ddbBatchSize
  /\ UNCHANGED <<dData, dWritten, dret, dpc>>
  /\ UNCHANGED notAdd

\* start >= len(data): return written, err
AddReturn ==
  /\ dpc = "loop"
  /\ ~(dStart < Len(dData))
  /\ dret' = [written |-> dWritten, err |-> dErr]
  /\ dpc' = "done"
  /\ UNCHANGED <<dData, dStart, dEnd, dWritten, dErr, dCalls>>
  /\ UNCHANGED notAdd

AddNext ==
  \/ AddBatchOk
  \/ AddBatchFail
  \/ AddReturn

SpecAdd == AddInit /\ [][AddNext]_vars

\* ================================================= HasObject, GetObject
ObjectKeys == {"k1", "k2"}

\* What a call of the SDK can fail with besides the object's absence: an API
\* error of the service ("api", such as a refused access), or an error that
\* is no smithy.APIError ("other", such as a failed connection).
Faults == {"none", "api", "other"}

\* w.Client.HeadObject: nil for an object that is there, NotFound for one
\* that is not.
HeadObject(key, objs, fault) ==
  IF fault # "none" THEN fault
  ELSE IF key \in objs THEN "nil" ELSE "NotFound"

\* errors.As(err, &apiError)
IsAPIError(err) == err \in {"NotFound", "api"}

\* w.Client.GetObject in GetObjectContent: the error it returns
GetObjectContent(key, objs, fault) ==
  IF fault # "none" THEN fault
  ELSE IF key \in objs THEN "nil" ELSE "NotFound"

\* HasObject after HeadObject returned err
HasObject(err) ==
  IF err # "nil" /\ IsAPIError(err)
    THEN IF err = "NotFound" THEN [has |-> FALSE, err |-> "nil"]
                             ELSE [has |-> FALSE, err |-> err]
    ELSE [has |-> TRUE, err |-> err]

\* GetObject after HeadObject returned err, with a GetObjectContent that
\* would return cerr: the SDK operations made, and the result.
GetObject(err, cerr) ==
  LET h == HasObject(err) IN
    IF h.err # "nil"
      THEN [sdk |-> <<"HeadObject">>, nil |-> TRUE, err |-> h.err]
    ELSE IF ~h.has
      THEN [sdk |-> <<"HeadObject">>, nil |-> TRUE, err |-> "nil"]
    ELSE [sdk |-> <<"HeadObject", "GetObject">>,
          nil |-> cerr # "nil", err |-> cerr]

S3Init ==
  /\ AddIdle
  /\ UpsertIdle
  /\ FnsIdle
  /\ InvokeIdle
  /\ ListIdle
  /\ TwoIdle
  /\ ClearIdle
  /\ RetryIdle
  /\ BatchIdle
  /\ HandleIdle
  /\ DrainIdle
  /\ ChunkIdle
  /\ SendIdle
  /\ bucket \in SUBSET ObjectKeys
  /\ sdk = <<>>
  /\ sstep = 0
  /\ sop = [op |-> "NewS3Client", key |-> "", head |-> "nil", has |-> FALSE,
            nil |-> TRUE, err |-> "nil"]

\* has, err := w.HasObject(key)
S3HasObject ==
  /\ sstep < MaxS3Ops
  /\ \E key \in ObjectKeys, fault \in Faults :
       LET e == HeadObject(key, bucket, fault)
           h == HasObject(e)
       IN /\ sop' = [op |-> "HasObject", key |-> key, head |-> e,
                     has |-> h.has, nil |-> TRUE, err |-> h.err]
          /\ sdk' = <<"HeadObject">>
  /\ sstep' = sstep + 1
  /\ UNCHANGED bucket
  /\ UNCHANGED notS3

\* content, err := w.GetObject(key)
S3GetObject ==
  /\ sstep < MaxS3Ops
  /\ \E key \in ObjectKeys, fault \in Faults, cfault \in Faults :
       LET e == HeadObject(key, bucket, fault)
           g == GetObject(e, GetObjectContent(key, bucket, cfault))
       IN /\ sop' = [op |-> "GetObject", key |-> key, head |-> e,
                     has |-> HasObject(e).has, nil |-> g.nil, err |-> g.err]
          /\ sdk' = g.sdk
  /\ sstep' = sstep + 1
  /\ UNCHANGED bucket
  /\ UNCHANGED notS3

S3Next ==
  \/ S3HasObject
  \/ S3GetObject

SpecS3 == S3Init /\ [][S3Next]_vars

\* ================================================================ claims
StatusCount(s, st) == Cardinality({i \in 1..Len(s) : s[i].Status = st})

Delivered == StatusCount(published, SqsReadSuccess)

\* s is a beginning of: n responses Success, then one response `last`
IsRunThen(s, n, last) ==
  /\ Len(s) <= n + 1
  /\ \A i \in 1..Len(s) :
       s[i].Status = (IF i <= n THEN SqsReadSuccess ELSE last)

\* C1 (as stated): with a non-zero maximum n, positive or negative, no
\* Success response is published that brings the number of Success responses
\* above n.
C1_DeliveredAtMostNonZeroMax ==
  [][(max # 0 /\ StatusCount(published', SqsReadSuccess) > Delivered)
       => StatusCount(published', SqsReadSuccess) <= max]_vars

\* C1 (amended): with a positive maximum n the number of Success responses
\* published never exceeds n, whatever the queue holds and whatever the
\* receive batch size is.
C1_DeliveredAtMostPositiveMax == max > 0 => Delivered <= max

C1_Witness == max > 0 /\ Delivered = max /\ Len(queue) > 0 /\ pc = "done"

\* C2: with maximum N > 0, a queue that held at least N + 5 messages and no
\* service error, the responses published are N times Success, then one
\* MaximumReached, and nothing after it; the session is done only when all of
\* them were published, also when messages of the batch remain.
QuotaCase == max > 0 /\ initial >= max + 5 /\ svcErr = "none"

C2_QuotaStop ==
  QuotaCase =>
    /\ IsRunThen(published, max, SqsReadMaximumReached)
    /\ pc = "done" => Len(published) = max + 1

C2_Witness == QuotaCase /\ pc = "done" /\ msgs # <<>> /\ Delivered = max

\* C3: on a queue that held exactly M messages, M below the maximum, with no
\* service error and no other sender, the responses published are M times
\* Success, then one AllConsumed, and nothing after it.
ExhaustCase == max > initial /\ svcErr = "none" /\ envSent = 0

C3_ExhaustionStop ==
  ExhaustCase =>
    /\ IsRunThen(published, initial, SqsReadAllConsumed)
    /\ pc = "done" => Len(published) = initial + 1

C3_Witness == ExhaustCase /\ pc = "done" /\ initial >= 2 /\ Delivered = initial

\* C4 (as stated): a failed remaining-count query does not end the session:
\* the producer goes on (to publish Failed and to iterate again).
C4_CountErrorContinues == svcErr = "count" => pc \notin {"panicked", "done"}

\* C5 (as stated): after a failed receive call the producer publishes Failed
\* and goes on with the next iteration; it never faults.
C5_ReceiveErrorContinues == svcErr = "receive" => pc # "panicked"

\* C6: a session publishes at most one session-ending response (AllConsumed,
\* MaximumReached, or the Error after which it is over), no response follows
\* it, and a session that returned has published AllConsumed or
\* MaximumReached last.
Terminal(r) == r.Status \in {SqsReadAllConsumed, SqsReadMaximumReached}

C6_OneTerminalLast ==
  /\ \A i \in 1..Len(published) :
       published[i].Status # SqsReadSuccess => i = Len(published)
  /\ pc = "done" => published # <<>> /\ Terminal(published[Len(published)])
  /\ (published # <<>> /\ Terminal(published[Len(published)])) => pc = "done"

C6_Witness ==
  /\ pc = "done"
  /\ Len(published) >= 3
  /\ Terminal(published[Len(published)])

RECURSIVE Flatten(_)
Flatten(cs) == IF cs = <<>> THEN <<>> ELSE Head(cs) \o Flatten(Tail(cs))

\* C7: for a positive chunk size k, ChunkSlice returns (it does not fault)
\* chunks whose concatenation is the input, every chunk but the last of
\* length k, the last of length 1..k, none empty, and no chunk at all for an
\* empty input; while it runs, the chunks made so far followed by the rest
\* of the slice are the input.
C7_ChunksCoverInput ==
  cSize > 0 =>
    /\ cpc \in {"loop", "done"}
    /\ Flatten(chunks) \o slice = cInput
    /\ \A i \in 1..Len(chunks) : Len(chunks[i]) >= 1 /\ Len(chunks[i]) <= cSize
    /\ \A i \in 1..(Len(chunks) - 1) : Len(chunks[i]) = cSize
    /\ cpc = "done" =>
         /\ Flatten(chunks) = cInput
         /\ cInput = <<>> => chunks = <<>>
         /\ Len(chunks) * cSize >= Len(cInput)

C7_Witness ==
  /\ cpc = "done" /\ cSize = 2 /\ Len(cInput) = 3
  /\ Len(chunks) = 2 /\ Len(chunks[2]) = 1

\* C8 (as stated): for a chunk size <= 0 and a non-empty input, ChunkSlice
\* does not fault, appends no empty chunk (it clamps the size to the
\* remaining length, so it cannot loop without progress) and returns chunks
\* that cover the input in order.
C8_NonPositiveSizeClamped ==
  (cSize <= 0 /\ cInput # <<>>) =>
    /\ cpc # "panicked"
    /\ \A i \in 1..Len(chunks) : chunks[i] # <<>>
    /\ cpc = "done" => Flatten(chunks) = cInput

\* C9: when the service accepts every entry of every batch, SendManyMessages
\* on n messages returns (n, nil) after exactly ceil(n / 10) batch-send
\* calls, the j-th carrying messages 10(j-1)+1 .. min(10j, n) in input
\* order; for n = 0 that is no call and (0, nil).
AllAccepted ==
  \A j \in 1..Len(calls) : ~calls[j].err /\ calls[j].failed = {}

CeilDiv(n, d) == (n + d - 1) \div d

C9_BatchSendAccounting ==
  (spc = "returned" /\ AllAccepted) =>
    /\ sret = [total |-> Len(messages), err |-> NoErr]
    /\ Len(calls) = CeilDiv(Len(messages), maxBatchSize)
    /\ \A j \in 1..Len(calls) :
         calls[j].entries =
           SubSeq(messages, maxBatchSize * (j - 1) + 1,
                  Min(maxBatchSize * j, Len(messages)))
    /\ queue = messages

C9_Witness ==
  /\ spc = "returned" /\ AllAccepted /\ Len(messages) = 23
  /\ Len(calls) = 3 /\ Len(calls[3].entries) = 3 /\ sret.total = 23

\* C10: when the service rejects f > 0 entries of a batch, SendManyMessages
\* returns the number of entries the service accepted (in this batch and the
\* batches before it) together with the error that wraps ErrSendBatchFailed
\* and reports f.
LastRejected ==
  /\ calls # <<>>
  /\ ~calls[Len(calls)].err
  /\ calls[Len(calls)].failed # {}

C10_PartialFailure ==
  (spc = "returned" /\ LastRejected) =>
    /\ sret.total = Len(queue)
    /\ sret.total = maxBatchSize * (Len(calls) - 1)
                    + Len(calls[Len(calls)].entries)
                    - Cardinality(calls[Len(calls)].failed)
    /\ sret.err = ErrSendBatchFailed(Cardinality(calls[Len(calls)].failed))

C10_Witness ==
  /\ spc = "returned" /\ LastRejected /\ Len(messages) = 10
  /\ Cardinality(calls[1].failed) = 2 /\ sret.total = 8

\* C11 (as stated): the handle (QueueName, QueueURL) always has the values
\* NewSqsClient gave it.
C11_HandleFixed == Handle = hNew

\* C11 (amended): only CreateQueue(name) and SetQueueURL(name) with a
\* non-empty name change the handle, to QueueName = name and QueueURL = the
\* URL of that queue or "" when it does not resolve; every other operation
\* (DeleteQueue, GetQueueURL, SendMsg) leaves it as it was.
C11_HandleChangedOnlyBySet ==
  [][Handle' # Handle =>
       /\ hop'.op \in {"CreateQueue", "SetQueueURL"}
       /\ hop'.name # ""
       /\ QueueName' = hop'.name
       /\ QueueURL' \in {"", URLOf[hop'.name]}]_vars

C11_Witness ==
  /\ hop.op = "CreateQueue" /\ hop.err = "nil"
  /\ Handle # hNew /\ hNew.QueueURL # "" /\ QueueName = hop.name

\* C12: a DeleteQueue(name) whose name resolves to a URL other than the
\* handle's QueueURL returns ErrQueueNameMismatch, issues no remote
\* delete-queue call and leaves the queues of the account as they were.
C12_NoDeleteOnMismatch ==
  [][(/\ hstep' = hstep + 1
      /\ hop'.op = "DeleteQueue"
      /\ ~hop'.fault
      /\ hop'.name \in remoteQueues
      /\ URLOf[hop'.name] # QueueURL)
       => /\ hop'.err = "ErrQueueNameMismatch"
          /\ hop'.calls = 0
          /\ remoteQueues' = remoteQueues
          /\ stored' = stored]_vars

C12_Witness ==
  /\ hop.op = "DeleteQueue" /\ hop.err = "ErrQueueNameMismatch"
  /\ hop.name \in remoteQueues /\ QueueURL # "" /\ hop.calls = 0

\* C13: when no remote call fails for a reason of its own: a CreateQueue(n)
\* that succeeds returns the URL GetQueueURL(n) then returns, also on a
\* client built for another queue; while that queue is the last one created
\* on the client, DeleteQueue(n) returns nil and removes it; and after that
\* GetQueueURL(n) returns an error.
C13_CreateResolveDelete ==
  [][hstep' = hstep + 1 =>
       /\ (hop'.op = "CreateQueue" /\ hop'.err = "nil") =>
            /\ hop'.name \in remoteQueues'
            /\ hop'.out = GetQueueURL(hop'.name, remoteQueues', TRUE).url
            /\ hop'.out # ""
       /\ (/\ hop'.op = "GetQueueURL" /\ ~hop'.fault
           /\ created.name = hop'.name /\ ~created.gone) =>
            /\ hop'.err = "nil"
            /\ hop'.out = URLOf[created.name]
       /\ (/\ hop'.op = "DeleteQueue" /\ ~hop'.fault
           /\ created.name = hop'.name /\ created.clean /\ ~created.gone) =>
            /\ hop'.err = "nil"
            /\ hop'.name \notin remoteQueues'
            /\ created'.gone
       /\ (/\ hop'.op = "GetQueueURL"
           /\ created.name = hop'.name /\ created.gone) =>
            /\ hop'.err # "nil"
            /\ hop'.out = ""]_vars

C13_Witness ==
  /\ hop.op = "GetQueueURL" /\ hop.err = "NonExistentQueue"
  /\ created.name = hop.name /\ created.gone /\ created.clean
  /\ hNew.QueueName # hop.name /\ hNew.QueueURL # ""

\* C14: SendMsg returns a nil output and ErrEmptyMessageBody for the empty
\* message, else ErrInvalidUTF8 for bytes that are not valid UTF-8, else
\* ErrMessageTooLong for more than 256*1024 bytes, each without a remote
\* call; every other message goes to the queue of the handle in exactly one
\* remote call, which queues it when it succeeds.
C14_SendMsgChecks ==
  [][(hstep' = hstep + 1 /\ hop'.op = "SendMsg") =>
       LET m == hop'.msg IN
       /\ m.len = 0 => hop'.err = "ErrEmptyMessageBody"
       /\ (m.len > 0 /\ ~m.utf8) => hop'.err = "ErrInvalidUTF8"
       /\ (m.len > MaxMsgBytes /\ m.utf8) => hop'.err = "ErrMessageTooLong"
       /\ (m.len = 0 \/ ~m.utf8 \/ m.len > MaxMsgBytes) =>
            /\ hop'.calls = 0
            /\ hop'.out = ""
            /\ stored' = stored
       /\ (m.len > 0 /\ m.utf8 /\ m.len <= MaxMsgBytes) =>
            /\ hop'.calls = 1
            /\ hop'.err \in {"nil", "svc"}
            /\ hop'.err = "nil" =>
                 /\ Len(stored') = Len(stored) + 1
                 /\ stored'[Len(stored')].msg = m
                 /\ URLOf[stored'[Len(stored')].queue] = QueueURL
            /\ hop'.err = "svc" => stored' = stored /\ hop'.out = ""]_vars

C14_Witness ==
  /\ hop.op = "SendMsg" /\ hop.err = "nil" /\ hop.calls = 1
  /\ hop.msg.len = MaxMsgBytes /\ stored # <<>>

\* C15: SendMsgBatch given more than 10 messages sends only the first 10 in
\* its single batch call; given none it returns ErrMessageEmpty without a
\* remote call; and when the service reports failed entries it returns a nil
\* error with the failures in the output.
C15_BatchAsStated ==
  bpc = "returned" =>
    /\ Len(bMessages) = 0 => bret.err = "ErrMessageEmpty" /\ bSent = <<>>
    /\ Len(bMessages) > 0 =>
         /\ Len(bSent) = 1
         /\ Bodies(bSent[1]) =
              SubSeq(bMessages, 1, Min(Len(bMessages), maxBatchSize))
    /\ (~bret.nil /\ bret.out.Failed # <<>>) => bret.err = "nil"

\* C16: SendMsgWithRetry(message, retries) calls SendMsg at most retries
\* times and not again after a success; when an attempt succeeded it returns
\* the output of that attempt and a nil error; it returns a nil output and
\* a non-nil error exactly when every attempt failed (then all retries
\* attempts were made).
AllFailed == \A i \in 1..Len(rAttempts) : rAttempts[i].err # "nil"

C16_RetryContract ==
  /\ Len(rAttempts) <= rRetries
  /\ \A i \in 1..(Len(rAttempts) - 1) : rAttempts[i].err # "nil"
  /\ rpc = "returned" =>
       /\ ~AllFailed =>
            /\ ~rret.nil
            /\ rret.out = Len(rAttempts)
            /\ rret.err = "nil"
       /\ (rret.nil /\ rret.err # "nil") <=> AllFailed
       /\ AllFailed => Len(rAttempts) = rRetries

C16_Witness ==
  /\ rpc = "returned" /\ ~rret.nil
  /\ Len(rAttempts) = 2 /\ Len(rAttempts) < rRetries
  /\ rAttempts[1].err = "svc" /\ rAttempts[2].err = "nil"

\* C17: the count ClearQueue returns equals the number of delete calls that
\* succeeded; it returns at the first receive or delete call that fails,
\* with the count so far; and when it returns a nil error and no other
\* sender added a message, the queue's remaining count is 0 (every message
\* that was in the queue has been deleted).
C17_ClearQueue ==
  /\ cleared = kDeletes
  /\ kErrors <= 1
  /\ kErrors = 1 => kpc = "returned"
  /\ kpc = "returned" =>
       /\ kret.n = kDeletes
       /\ kret.err = "nil" <=> kErrors = 0
       /\ (kret.err = "nil" /\ envSent = 0) =>
            /\ GetRemainedItems(queue) = 0
            /\ inflight = {}
            /\ kret.n = initial

C17_Witness ==
  /\ kpc = "returned" /\ kret.err = "nil" /\ envSent = 0
  /\ initial > maxBatchSize /\ kret.n = initial /\ queue = <<>>

\* C18: a drain session cannot be cancelled: once the consumer has stopped
\* receiving and the producer stands at a publish with the channel
\* unbuffered or its buffer full, the producer stays at that publish in
\* every later state: it publishes nothing more and never returns.
Publishing ==
  pc \in {"sendAllConsumed", "sendFailed", "sendSuccess", "sendMaximum"}

Blocked ==
  /\ ~consumerOn
  /\ ~chanClosed
  /\ Publishing
  /\ chanCap = 0 \/ Len(chanBuf) >= chanCap

C18_AbandonedProducerBlocked ==
  [][Blocked => /\ Blocked'
                /\ pc' = pc
                /\ pc' # "done"
                /\ published' = published
                /\ chanBuf' = chanBuf
                /\ consumed' = consumed]_vars

C18_Witness ==
  /\ Blocked /\ pc = "sendSuccess" /\ StatusCount(published, SqsReadSuccess) > 0
  /\ chanCap > 0 /\ Len(chanBuf) = chanCap

\* C19: the consumer receives the events of a session in the order the
\* producer generated them: what it has received and what waits in the
\* channel is together what was published; the messages of the Delivered
\* events are, in order, the first messages the receive calls returned
\* (batch after batch, each in the order of the service); and a terminal
\* event is the last one.
SuccessMsgs(s) ==
  LET F[i \in 0..Len(s)] ==
        IF i = 0 THEN <<>>
        ELSE IF s[i].Status = SqsReadSuccess THEN Append(F[i - 1], s[i].Msg)
        ELSE F[i - 1]
  IN F[Len(s)]

C19_OrderPreserved ==
  /\ consumed \o chanBuf = published
  /\ LET d == SuccessMsgs(published) IN
       /\ Len(d) <= Len(received)
       /\ d = SubSeq(received, 1, Len(d))
  /\ \A i \in 1..Len(consumed) :
       consumed[i].Status \in {SqsReadAllConsumed, SqsReadMaximumReached}
         => i = Len(published)

C19_Witness ==
  /\ pc = "done" /\ consumed = published /\ batchSize = 2
  /\ Len(SuccessMsgs(consumed)) >= 3
  /\ consumed[Len(consumed)].Status = SqsReadAllConsumed

\* C20: two sessions interleaved on one client keep separate tallies: the
\* tally of each session is the number of Success responses it published
\* itself; a session with a (positive) maximum publishes at most that many
\* and publishes MaximumReached only when it has delivered exactly that
\* many itself; and each session publishes at most one session-ending
\* response, as its last, a session that returned having published
\* AllConsumed or MaximumReached.
DeliveredBy(s) == StatusCount(tpub[s], SqsReadSuccess)

C20_SessionsIndependent ==
  \A s \in Sessions :
    /\ tgot[s] = DeliveredBy(s)
    /\ tmax[s] > 0 => DeliveredBy(s) <= tmax[s]
    /\ \A i \in 1..Len(tpub[s]) :
         /\ tpub[s][i].Status # SqsReadSuccess => i = Len(tpub[s])
         /\ (tpub[s][i].Status = SqsReadMaximumReached /\ tmax[s] > 0)
              => DeliveredBy(s) = tmax[s]
    /\ tpc[s] = "done" =>
         tpub[s] # <<>> /\ Terminal(tpub[s][Len(tpub[s])])

C20_Witness ==
  /\ tpc[1] = "done" /\ tpc[2] = "done"
  /\ tmax[1] = 1 /\ tmax[2] = 2
  /\ DeliveredBy(1) = 1 /\ DeliveredBy(2) = 2
  /\ tpub[1][2].Status = SqsReadMaximumReached
  /\ tpub[2][3].Status = SqsReadMaximumReached
  /\ tpub[2][1].Msg < tpub[1][1].Msg /\ tpub[1][1].Msg < tpub[2][2].Msg

\* C21: a drain session never deletes: every message a receive call of the
\* session returned, delivered or not, is still in the remote queue (in
\* flight) unless a DeleteMsg call of the consumer removed it, and the
\* consumer only deletes messages it was handed; no message of the queue is
\* lost.
C21_SessionNeverDeletes ==
  /\ Range(received) \ deleted \subseteq inflight
  /\ deleted \subseteq Range(SuccessMsgs(consumed))
  /\ deleted \cap inflight = {}
  /\ Range(queue) \cup inflight \cup deleted = 1..(initial + envSent)

C21_Witness ==
  /\ pc = "done"
  /\ deleted # {}
  /\ Range(SuccessMsgs(consumed)) \ deleted # {}
  /\ Range(SuccessMsgs(consumed)) \ deleted \subseteq inflight

\* C22: ListObjects with WithMaxKeys(n), n > 0, returns exactly min(n, number
\* of objects that pass the filter) keys, never more than n, however the
\* listing is split into pages.
Matching == Cardinality({i \in 1..Len(lObjects) : lObjects[i]})

C22_ListExactlyMaxKeys ==
  (lpc = "returned" /\ lret.err = "nil" /\ lMaxKeys > 0) =>
    /\ Len(lret.found) <= lMaxKeys
    /\ Len(lret.found) = Min(lMaxKeys, Matching)

\* C23: the request of an InvokeAsync has invocation type Event and the
\* request of an InvokeSync has invocation type RequestResponse; with dryRun
\* neither sends a request and both return (nil, nil).
C23_InvocationTypes ==
  /\ dryRun => invoked = <<>> /\ iop.nil /\ iop.err = "nil"
  /\ (~dryRun /\ iop.op = "InvokeAsync") =>
       invoked[Len(invoked)].InvocationType = "Event"
  /\ (~dryRun /\ iop.op = "InvokeSync") =>
       invoked[Len(invoked)].InvocationType = "RequestResponse"

\* C24: List(maxItems) returns at most maxItems function configurations,
\* whatever pages the service returns, and requests no page once it holds
\* maxItems.
C24_ListAtMostMaxItems ==
  /\ fpc = "returned" => Len(fret.fns) <= maxItems
  /\ Len(fns) >= maxItems => ~ENABLED FnsPage

\* C25: an Upsert(name) whose listing succeeds calls Create exactly when no
\* schedule named name exists in the group and Update exactly when one
\* exists, whatever other schedules the group holds.
C25_UpsertCreatesOrUpdates ==
  (uop.op = "Upsert" /\ uop.call # "none") =>
    /\ uop.call = "Create" <=> ~uop.existed
    /\ uop.call = "Update" <=> uop.existed

\* C26: a batch-send call that errors or reports failed entries is the last
\* call SendManyMessages issues: it returns at once with an error; what the
\* earlier chunks queued stays queued; and the total returned is the number
\* of entries accepted in the chunks sent, none of the chunk whose call
\* errored.
Failing(c) == c.err \/ c.failed # {}

Accepted(c) == IF c.err THEN 0 ELSE Len(c.entries) - Cardinality(c.failed)

C26_StopAtFirstFailure ==
  /\ \A j \in 1..(Len(calls) - 1) : ~Failing(calls[j])
  /\ (calls # <<>> /\ Failing(calls[Len(calls)])) =>
       LET i == Len(calls) IN
       /\ spc = "returned"
       /\ sret.err # NoErr
       /\ sret.total = maxBatchSize * (i - 1) + Accepted(calls[i])
       /\ calls[i].err => sret.total = maxBatchSize * (i - 1)
       /\ Len(queue) = sret.total
       /\ SubSeq(queue, 1, maxBatchSize * (i - 1))
            = SubSeq(messages, 1, maxBatchSize * (i - 1))

C26_Witness ==
  /\ spc = "returned" /\ Len(messages) = 23 /\ Len(calls) = 2
  /\ calls[2].err /\ sret.total = 10 /\ sret.err = ErrSendingBatch
  /\ Len(queue) = 10

\* C27: with a consumer that stops and closes the channel once it has
\* received Error, AllConsumed or MaximumReached, the producer never sends
\* on the closed channel: once the channel is closed the producer is at no
\* send and publishes nothing more.
C27_NoSendOnClosedChannel ==
  /\ svcErr # "closed"
  /\ chanClosed =>
       /\ ~Publishing
       /\ pc \in {"done", "rangeNil", "panicked"}
       /\ consumed = published

C27_Witness ==
  /\ chanClosed /\ pc = "done" /\ msgs # <<>>
  /\ consumed[Len(consumed)].Status = SqsReadMaximumReached
  /\ Delivered = max

\* C28: under weak fairness of the producer and of the receiving caller,
\* with a service that answers every call, no other sender and a count that
\* falls as messages are received, every session eventually has published
\* AllConsumed or MaximumReached as its last response and ReadMessages has
\* returned.
C28_EventuallyTerminal ==
  <>(/\ pc = "done"
     /\ published # <<>>
     /\ Terminal(published[Len(published)]))

C28_Witness ==
  /\ pc = "done" /\ max = 0 /\ initial >= 3
  /\ Len(published) = initial + 1
  /\ published[Len(published)].Status = SqsReadAllConsumed
  /\ consumed = published

\* C29 (as stated): AddItemBatch calls BatchWriteItem on consecutive batches
\* of at most 25 write requests that together are the input, goes on after a
\* failed batch, returns as count the total size of the batches that
\* succeeded, and returns a non-nil error whenever any batch failed.
RECURSIVE Batches(_)
Batches(cs) ==
  IF cs = <<>> THEN <<>> ELSE Head(cs).batch \o Batches(Tail(cs))

RECURSIVE SizeOfOk(_)
SizeOfOk(cs) ==
  IF cs = <<>> THEN 0
  ELSE (IF Head(cs).ok THEN Len(Head(cs).batch) ELSE 0) + SizeOfOk(Tail(cs))

C29_AddItemBatch ==
  /\ \A j \in 1..Len(dCalls) :
       /\ Len(dCalls[j].batch) \in 1..ddbBatchSize
       /\ j < Len(dCalls) => Len(dCalls[j].batch) = ddbBatchSize
  /\ dpc = "done" =>
       /\ Batches(dCalls) = dData
       /\ dret.written = SizeOfOk(dCalls)
       /\ dret.err # "nil" <=> \E j \in 1..Len(dCalls) : ~dCalls[j].ok

\* C30 (as stated): HasObject returns true only with a nil error; when
\* HeadObject fails it returns false, with a nil error for NotFound and with
\* the error for every other failure, API error or not; so GetObject returns
\* (nil, nil) for a missing object and makes no GetObject call of the SDK
\* after a failed existence check.
C30_HasObjectErrors ==
  /\ sop.op = "HasObject" =>
       /\ sop.has => sop.err = "nil"
       /\ sop.head # "nil" =>
            /\ ~sop.has
            /\ sop.err = (IF sop.head = "NotFound" THEN "nil" ELSE sop.head)
  /\ sop.op = "GetObject" =>
       /\ sop.head = "NotFound" => sop.nil /\ sop.err = "nil"
       /\ sop.head # "nil" => sdk = <<"HeadObject">>

====
